---- MODULE Spec2Model ----
(***************************************************************************)
(* A model of the astronomy starter kit:                                   *)
(*   - the sample data generators (FoundationDashboard._generate_data and  *)
(*     VisualFoundations.create_sample_data) together with the process-    *)
(*     wide random source they draw from            (specification GenSpec)*)
(*   - the environment diagnostic script test_foundation.py                *)
(*                                                 (specification DiagSpec)*)
(*   - the entry points that need a third-party package: the dashboard's   *)
(*     main() and the three plot renderers        (specification EntrySpec)*)
(*                                                                         *)
(* Numbers.  x = linspace(0, 10, n) is the rational 10*(i-1)/(n-1); an     *)
(* array of x values is carried as integer numerators over one common      *)
(* denominator.  A y value is a record                                     *)
(*     [fn, num, den, off, noise]                                          *)
(* fn(num/den) is the closed form applied to the sample (kept symbolic),   *)
(* off is what the code adds to or subtracts from it, in units of 1e-4,    *)
(* and noise is the noise term noise_level * coef * draw, in units of      *)
(* 1e-4 / RandRes (noise_level counts slider steps of 0.05, a uniform draw *)
(* r stands for r / RandRes in [0, 1)).                                    *)
(***************************************************************************)
EXTENDS Integers, Sequences, FiniteSets, TLC

VARIABLES
    rng,        \* state of the process-wide random source (np.random)
    last,       \* the latest generator call: its arguments and what it returned
    inst,       \* the attributes of the instance the generator is called on
    env,        \* the environment the diagnostic script runs in
    dpc,        \* run_all_tests: the step it is about to take
    results,    \* run_all_tests: all_results.results
    sections,   \* run_all_tests: the section headers printed so far
    summary,    \* run_all_tests: the counts of the summary
    visualRuns, \* run_all_tests: calls of run_visual_test
    visualOutcome, \* run_all_tests: how the call of run_visual_test ended
    exitCode,   \* run_all_tests: the value returned (-1 until it returns)
    importable, \* which of dash, plotly, matplotlib can be imported
    entry,      \* the process: the dashboard script or a user of the library
    epc,        \* dashboard main(): the step it is about to take
    app,        \* the dashboard: what has been set up and whether it serves
    pending,    \* dashboard main(): the exception raised inside its try block
    printed,    \* dashboard main(): the messages its handlers printed
    mainRet,    \* dashboard main(): the value returned
    exited,     \* the dashboard script: its exit status (-1 while it runs)
    plot,       \* the latest renderer call: its arguments and what it did
    controls,   \* the dashboard page: the values of its three controls
    outputs,    \* the dashboard page: what its four outputs show
    learned,    \* the latest learning_dashboard_data call and what it returned
    colour,     \* the latest get_color call and what it returned
    heap,       \* the dictionaries and lists of a program, by identity
    instances,  \* the VisualFoundations instances the program has made
    listed,     \* the dictionaries list_colors has returned to it
    tracker     \* a TestResults object: the statuses passed to add, in order

genVars == <<rng, last, inst>>

diagVars == <<env, dpc, results, sections, summary, visualRuns, visualOutcome, exitCode>>

entryVars == <<importable, entry, epc, app, pending, printed, mainRet, exited, plot>>

dashVars == <<controls, outputs>>

libVars == <<learned, colour>>

objVars == <<heap, instances, listed, tracker>>

vars == <<genVars, diagVars, entryVars, dashVars, libVars, objVars>>

(***************************************************************************)
(* Bounds of the model.                                                    *)
(***************************************************************************)
MaxPoints == 8
MaxNoise == 1
RngPeriod == 3
RandRes == 3
MaxDeviations == 2
MaxDatasets == 5
PointSteps == 1
MaxInstances == 2

(***************************************************************************)
(* Data types.                                                             *)
(***************************************************************************)
DashboardTypes == {"sine", "exponential", "spectrum", "lightcurve", "transit", "random"}

LibraryTypes == {"sine", "exponential", "spectrum", "lightcurve", "transit",
                 "blackbody", "linear"}

\* every value a caller may pass: the enumerations and one value outside both
DataTypes == DashboardTypes \cup LibraryTypes \cup {"bogus"}

Modules == {"dashboard", "library"}

Supported(module) == IF module = "dashboard" THEN DashboardTypes ELSE LibraryTypes

(***************************************************************************)
(* The random source.  A state is a position in the stream; every draw     *)
(* moves it one step.                                                      *)
(***************************************************************************)
RngStates == 0 .. (RngPeriod - 1)

Advance(s, k) == (s + k) % RngPeriod

\* the k-th draw (k >= 1) of a uniform [0, 1) sample from state s, as r / RandRes
Uniform(s, k) == ((Advance(s, k) * 2) + 1) % RandRes

\* the k-th draw of a standard normal sample from state s: -1, 0 or 1
Gauss(s, k) == (Advance(s, k) % 3) - 1

\* np.random.random(n): n uniform draws
random(s, n) == [i \in 1 .. n |-> Uniform(s, i)]

\* np.random.randn(n): n normal draws
randn(s, n) == [i \in 1 .. n |-> Gauss(s, i)]

(***************************************************************************)
(* np.linspace(start, stop, num) with endpoint=True: num samples, the      *)
(* first at start and (for num >= 2) the last at stop.  Returned as        *)
(* numerators over the denominator div = num - 1 (1 when num = 1, where    *)
(* numpy returns [start]).                                                 *)
(***************************************************************************)
\* variant: endpoint=False, the samples stop one step short of stop
linspace_open(start, stop, num) ==
    [den |-> num,
     nums |-> [i \in 1 .. num |-> start * num + (i - 1) * (stop - start)]]

\* variant: one sample too many
linspace_long(start, stop, num) ==
    [den |-> num,
     nums |-> [i \in 1 .. (num + 1) |-> start * num + (i - 1) * (stop - start)]]

linspace(start, stop, num) ==
    LET div == IF num > 1 THEN num - 1 ELSE 1
    IN [den |-> div,
        nums |-> [i \in 1 .. num |-> start * div + (i - 1) * (stop - start)]]

(***************************************************************************)
(* Comparisons of a sample with a decimal given in hundredths, as float64  *)
(* arithmetic decides them.                                                *)
(*                                                                         *)
(* The sample at index i of np.linspace(0, 10, n) is the float64 product   *)
(* i * step, with step the float64 quotient 10 / (n - 1); num / den is its *)
(* exact value 10 * i / (n - 1).  A float64 in a binade is a multiple of   *)
(* 2^-j; rounding moves a real to the nearest multiple, a tie to the even  *)
(* one.  When the exact sample differs from the decimal the roundings,     *)
(* which are below 2^-45, cannot change the comparison (the difference is  *)
(* at least 1 / (100 * den)).  When they are equal the roundings decide.   *)
(***************************************************************************)
Abs(v) == IF v < 0 THEN -v ELSE v

RECURSIVE Pow2(_)
Pow2(n) == IF n = 0 THEN 1 ELSE 2 * Pow2(n - 1)

\* 2^k modulo m
RECURSIVE PowMod(_, _)
PowMod(k, m) == IF k = 0 THEN 1 % m ELSE (2 * PowMod(k - 1, m)) % m

\* the k for which step = 10 / den is a float64 M * 2^-k with 2^52 <= M < 2^53
RECURSIVE StepExponent(_)
StepExponent(den) ==
    IF den = 1 THEN 49
    ELSE IF den = 2 THEN 50
    ELSE IF den <= 5 THEN 51
    ELSE IF den <= 10 THEN 52
    ELSE 1 + StepExponent((den + 1) \div 2)

\* step = delta / div: M * den - 10 * 2^k for the mantissa M nearest to
\* 10 * 2^k / den (no tie arises, since den < 2^k)
StepError(den) ==
    LET r == (10 * PowMod(StepExponent(den), den)) % den
    IN IF 2 * r <= den THEN -r ELSE den - r

\* the float64 value M * 2^-j of each decimal the transit masks compare with,
\* computed as the code computes it (such as (5.0 - 1.5/2) - 0.3 for 3.95):
\* a = 100 * M - t100 * 2^j, and whether M is odd
float64(t100) ==
    CASE t100 = 395 -> [a |-> 40, j |-> 51, odd |-> FALSE]
      [] t100 = 405 -> [a |-> -20, j |-> 50, odd |-> TRUE]
      [] t100 = 425 -> [a |-> 0, j |-> 50, odd |-> FALSE]
      [] t100 = 435 -> [a |-> -40, j |-> 50, odd |-> FALSE]
      [] t100 = 445 -> [a |-> 20, j |-> 50, odd |-> TRUE]
      [] t100 = 555 -> [a |-> -20, j |-> 50, odd |-> TRUE]
      [] t100 = 565 -> [a |-> 40, j |-> 50, odd |-> FALSE]
      [] t100 = 575 -> [a |-> 0, j |-> 50, odd |-> FALSE]
      [] t100 = 595 -> [a |-> 20, j |-> 50, odd |-> TRUE]
      [] t100 = 605 -> [a |-> -20, j |-> 50, odd |-> TRUE]

\* (i * step) - float64(t100) for a sample whose exact value is t100 / 100,
\* in units of 1 / (100 * den * 2^k)
ProductOffset(num, den, t100) ==
    100 * (num \div 10) * StepError(den)
        - float64(t100).a * den * Pow2(StepExponent(den) - float64(t100).j)

\* half the distance between neighbouring float64 values at t100 / 100, in the
\* same units
HalfUlp(den, t100) == 50 * den * Pow2(StepExponent(den) - float64(t100).j)

\* x > t
Above(num, den, t100) ==
    IF 100 * num # t100 * den
    THEN 100 * num > t100 * den
    ELSE \/ ProductOffset(num, den, t100) > HalfUlp(den, t100)
         \/ /\ ProductOffset(num, den, t100) = HalfUlp(den, t100)
            /\ float64(t100).odd

\* x < t
Below(num, den, t100) ==
    IF 100 * num # t100 * den
    THEN 100 * num < t100 * den
    ELSE \/ ProductOffset(num, den, t100) < -HalfUlp(den, t100)
         \/ /\ ProductOffset(num, den, t100) = -HalfUlp(den, t100)
            /\ float64(t100).odd

\* |x - c| < h; the difference x - c is exact in float64 for c/2 <= x <= 2c and
\* is further than h from 0 otherwise
Within(num, den, c100, h100) ==
    /\ Above(num, den, c100 - h100)
    /\ Below(num, den, c100 + h100)

(***************************************************************************)
(* The transit presets: centre, duration and shoulder reaches in           *)
(* hundredths, depth in units of 1e-4.                                     *)
(***************************************************************************)
DashboardTransit ==
    [center |-> 500, duration |-> 150, depth |-> 150,
     ingressFrom |-> 30, ingressTo |-> 10, egressFrom |-> 10, egressTo |-> 30]

LibraryTransit ==
    [center |-> 500, duration |-> 150, depth |-> 200,
     ingressFrom |-> 20, ingressTo |-> 20, egressFrom |-> 20, egressTo |-> 20]

TransitPreset(module) == IF module = "dashboard" THEN DashboardTransit ELSE LibraryTransit

\* in_transit = np.abs(x - transit_center) < transit_duration / 2
in_transit(p, num, den) == Within(num, den, p.center, p.duration \div 2)

\* ingress = (x > center - duration/2 - a) & (x < center - duration/2 + b)
ingress(p, num, den) ==
    /\ Above(num, den, p.center - (p.duration \div 2) - p.ingressFrom)
    /\ Below(num, den, p.center - (p.duration \div 2) + p.ingressTo)

\* variant: the upper end of the egress interval is not tested
egress_unbounded(p, num, den) ==
    Above(num, den, p.center + (p.duration \div 2) - p.egressFrom)

\* egress = (x > center + duration/2 - a) & (x < center + duration/2 + b)
egress(p, num, den) ==
    /\ Above(num, den, p.center + (p.duration \div 2) - p.egressFrom)
    /\ Below(num, den, p.center + (p.duration \div 2) + p.egressTo)

\* y = ones; y[in_transit] -= depth; y[ingress] -= depth*0.5; y[egress] -= depth*0.5
\* (the three subtractions in units of 1e-4; ones is 10000)
TransitDip(p, num, den) ==
    (IF in_transit(p, num, den) THEN p.depth ELSE 0)
    + (IF ingress(p, num, den) THEN p.depth \div 2 ELSE 0)
    + (IF egress(p, num, den) THEN p.depth \div 2 ELSE 0)

(***************************************************************************)
(* The noise coefficient of each branch: noise_level * coef, per slider    *)
(* step of 0.05, in units of 1e-4.                                         *)
(***************************************************************************)
NoiseCoef(branch) ==
    CASE branch = "sine" -> 500
      [] branch = "exponential" -> 250
      [] branch = "spectrum" -> 250
      [] branch = "lightcurve" -> 100
      [] branch = "transit" -> 50
      [] branch = "blackbody" -> 25
      [] OTHER -> 500

\* variant: the noise level is added to the draw instead of scaling it
NoiseTermAdded(noise_level, coef, r) == (noise_level + r) * coef

\* variant: the noise does not depend on noise_level
NoiseTermUnscaled(noise_level, coef, r) == coef * r

\* noise_level * coef * np.random.random(n_points)[i]
NoiseTerm(noise_level, coef, r) == noise_level * coef * r

\* np.cumsum(g)[i]
RECURSIVE cumsum(_, _)
cumsum(g, i) == IF i = 0 THEN 0 ELSE cumsum(g, i - 1) + g[i]

(***************************************************************************)
(* The branch a data_type takes in each generator's if/elif chain.         *)
(***************************************************************************)
\* variant: the dashboard's last branch is the sine series
DashboardBranchSineDefault(data_type) ==
    IF data_type \in {"exponential", "spectrum", "lightcurve", "transit", "random"}
    THEN data_type ELSE "sine"

\* variant: the dashboard has no exponential branch
DashboardBranchNoExponential(data_type) ==
    IF data_type \in DashboardTypes \ {"exponential"} THEN data_type ELSE "random"

DashboardBranch(data_type) ==
    IF data_type \in {"sine", "exponential", "spectrum", "lightcurve", "transit"}
    THEN data_type ELSE "random"

\* variant: the library's last branch is the sine series
LibraryBranchSineDefault(data_type) ==
    IF data_type \in {"exponential", "spectrum", "lightcurve", "transit", "blackbody"}
    THEN data_type ELSE "sine"

LibraryBranch(data_type) ==
    IF data_type \in {"sine", "exponential", "spectrum", "lightcurve", "transit",
                      "blackbody"}
    THEN data_type ELSE "linear"

(***************************************************************************)
(* One y value of a branch at sample num/den, with uniform draw r.         *)
(***************************************************************************)
Sample(fn, num, den, off, noise) ==
    [fn |-> fn, num |-> num, den |-> den, off |-> off, noise |-> noise]

\* e^-k for k = 0 .. 9, in units of 1e-4
exp_table == <<10000, 3679, 1353, 498, 183, 67, 25, 9, 3, 1>>

\* the product of two values in units of 1e-4
Mul(a, b) == (a * b) \div 10000

\* e^-t for t in [0, 1), t and the result in units of 1e-4
ExpFraction(t) ==
    10000 - Mul(t, 10000 - Mul(t \div 2, 10000 - Mul(t \div 3,
                   10000 - Mul(t \div 4, 10000 - t \div 5))))

\* variant: a line is as deep everywhere as at its centre
Gaussian_flat(num, den, center, width) == 10000

\* np.exp(-(x - center)**2 / width) at x = num/den, in units of 1e-4; center
\* and width are in units of 0.01.  Beyond 1.5 from the centre the value is
\* below 1e-6 for every width used and counts as 0.
Gaussian(num, den, center, width) ==
    LET d == Abs(100 * num - center * den)
        scale == 100 * den * den * width
    IN IF d >= 150 * den THEN 0
       ELSE LET k == (d * d) \div scale
                t == (((d * d) % scale) * 100) \div (den * den * width)
            IN IF k >= 10 THEN 0 ELSE Mul(exp_table[k + 1], ExpFraction(t))

\* absorption_centers, absorption_depths and the width(s), in units of 0.01
DashboardLines ==
    <<[center |-> 250, depth |-> 25, width |-> 15],
      [center |-> 500, depth |-> 15, width |-> 15],
      [center |-> 750, depth |-> 20, width |-> 15]>>

LibraryLines ==
    <<[center |-> 250, depth |-> 25, width |-> 10],
      [center |-> 500, depth |-> 15, width |-> 15],
      [center |-> 750, depth |-> 20, width |-> 12]>>

\* for center, depth(, width) in zip(...): y -= depth * np.exp(...): what the
\* loop takes off, in units of 1e-4
Dips(lines, num, den) ==
    (lines[1].depth * Gaussian(num, den, lines[1].center, lines[1].width)) \div 100
    + (lines[2].depth * Gaussian(num, den, lines[2].center, lines[2].width)) \div 100
    + (lines[3].depth * Gaussian(num, den, lines[3].center, lines[3].width)) \div 100

\* FoundationDashboard._generate_data: the value at index i
DashboardY(branch, x, i, noise_level, s, n_points) ==
    LET num == x.nums[i]
        den == x.den
        r == random(s, n_points)[i]
        noise == NoiseTerm(noise_level, NoiseCoef(branch), r)
    IN CASE branch = "sine" -> Sample("sin(x)", num, den, 0, noise)
         [] branch = "exponential" -> Sample("exp(-x/3)", num, den, 0, noise)
         [] branch = "spectrum" ->
                Sample("1+0.1*sin(5x)", num, den, 0 - Dips(DashboardLines, num, den), noise)
         [] branch = "lightcurve" ->
                Sample("1-0.01*x+0.08*sin(2*pi*x/2.5)", num, den, 0, noise)
         [] branch = "transit" ->
                Sample("ones", 0, 1, 10000 - TransitDip(DashboardTransit, num, den), noise)
         [] OTHER ->
                \* y = cumsum(randn(n) * 0.3); y += noise_level * random(n)
                Sample("cumsum", 0, 1, 3000 * cumsum(randn(s, n_points), i),
                       NoiseTerm(noise_level, NoiseCoef(branch),
                                 random(Advance(s, n_points), n_points)[i]))

\* (x ** -5) / (np.exp(1.0 / (x + 0.1)) - 1) for a float64 x >= 0: x ** -5 is
\* inf at x = 0 and finite above it, and the divisor is finite and positive
Planck(num, den) == IF num = 0 THEN "inf" ELSE "x^-5/(exp(1/(x+0.1))-1)"

PlanckAll(x) == {Planck(x.nums[i], x.den) : i \in DOMAIN x.nums}

\* np.max of float64 values: nan if any is nan, else inf if any is inf
np_max(values) ==
    IF "nan" \in values THEN "nan"
    ELSE IF "inf" \in values THEN "inf"
    ELSE "max"

\* y / np.max(y) on float64: inf / inf is nan, finite / inf is 0
Divide(value, max) ==
    CASE value = "nan" \/ max = "nan" -> "nan"
      [] value = "inf" /\ max = "inf" -> "nan"
      [] value = "inf" -> "inf"
      [] max = "inf" -> "0"
      [] OTHER -> "x^-5/(exp(1/(x+0.1))-1)/max"

\* VisualFoundations.create_sample_data: the value at index i
LibraryY(branch, x, i, noise_level, s, n_points) ==
    LET num == x.nums[i]
        den == x.den
        r == random(s, n_points)[i]
        noise == NoiseTerm(noise_level, NoiseCoef(branch), r)
    IN CASE branch = "sine" -> Sample("sin(x)", num, den, 0, noise)
         [] branch = "exponential" -> Sample("exp(-x/3)", num, den, 0, noise)
         [] branch = "spectrum" ->
                Sample("1+0.1*sin(5x)", num, den, 0 - Dips(LibraryLines, num, den), noise)
         [] branch = "lightcurve" ->
                Sample("1-0.01*x+0.05*sin(2*pi*x/2.5)", num, den, 0, noise)
         [] branch = "transit" ->
                Sample("ones", 0, 1, 10000 - TransitDip(LibraryTransit, num, den), noise)
         [] branch = "blackbody" ->
                Sample(Divide(Planck(num, den), np_max(PlanckAll(x))), num, den, 0, noise)
         [] OTHER -> Sample("0.5*x", num, den, 0, noise)

LibraryTitle(branch) ==
    CASE branch = "sine" -> "Sample Sine Wave Data"
      [] branch = "exponential" -> "Sample Exponential Decay"
      [] branch = "spectrum" -> "Sample Astronomical Spectrum"
      [] branch = "lightcurve" -> "Sample Light Curve"
      [] branch = "transit" -> "Sample Exoplanet Transit"
      [] branch = "blackbody" -> "Sample Blackbody Spectrum"
      [] OTHER -> "Sample Linear Data"

\* the draws a call takes from the random source
DashboardDraws(branch, n_points) ==
    IF branch = "random" THEN 2 * n_points ELSE n_points

LibraryDraws(branch, n_points) == n_points

(***************************************************************************)
(* The generators: what a call returns from random-source state s.         *)
(* x and y are what is returned, branch the branch taken, raised whether   *)
(* the call ended in an exception (no path of either generator raises for  *)
(* n_points >= 1), draws the draws taken from the random source.           *)
(***************************************************************************)
_generate_data(data_type, n_points, noise_level, s) ==
    LET x == linspace(0, 10, n_points)
        branch == DashboardBranch(data_type)
    IN [x |-> x,
        y |-> [i \in 1 .. n_points |->
                   DashboardY(branch, x, i, noise_level, s, n_points)],
        title |-> "",
        branch |-> branch,
        raised |-> Len(x.nums) # n_points,
        draws |-> DashboardDraws(branch, n_points)]

create_sample_data(data_type, n_points, noise_level, s) ==
    LET x == linspace(0, 10, n_points)
        branch == LibraryBranch(data_type)
    IN [x |-> x,
        y |-> [i \in 1 .. n_points |->
                   LibraryY(branch, x, i, noise_level, s, n_points)],
        title |-> LibraryTitle(branch),
        branch |-> branch,
        raised |-> Len(x.nums) # n_points,
        draws |-> LibraryDraws(branch, n_points)]

Generate(module, data_type, n_points, noise_level, s) ==
    IF module = "dashboard"
    THEN _generate_data(data_type, n_points, noise_level, s)
    ELSE create_sample_data(data_type, n_points, noise_level, s)

(***************************************************************************)
(* The colour schemes and the instances the generators are methods of.     *)
(***************************************************************************)
\* a hex colour code: the character # and six hexadecimal digits
Hex(digits) == <<"#", digits>>

ColorNames == {"primary", "secondary", "success", "warning", "info", "light",
               "dark", "cyan"}

ACCESSIBLE_COLORS ==
    [k \in ColorNames |->
        CASE k = "primary" -> Hex("3498DB")
          [] k = "secondary" -> Hex("E74C3C")
          [] k = "success" -> Hex("2ECC71")
          [] k = "warning" -> Hex("F39C12")
          [] k = "info" -> Hex("9B59B6")
          [] k = "light" -> Hex("ECF0F1")
          [] k = "dark" -> Hex("34495E")
          [] OTHER -> Hex("1ABC9C")]

WONG_PALETTE ==
    <<Hex("000000"), Hex("E69F00"), Hex("56B4E9"), Hex("009E73"), Hex("F0E442"), Hex("0072B2"), Hex("D55E00"),
      Hex("CC79A7")>>

\* the keys of both colour dictionaries in the order they are written
ColorOrder ==
    <<"primary", "secondary", "success", "warning", "info", "light", "dark", "cyan">>

\* list(d.values())
values(d) == [i \in DOMAIN ColorOrder |-> d[ColorOrder[i]]]

\* VisualFoundations.__init__(color_scheme): the contents of colors and palette
WongColors(palette) ==
    [k \in ColorNames |->
        CASE k = "primary" -> palette[6]
          [] k = "secondary" -> palette[7]
          [] k = "success" -> palette[4]
          [] k = "warning" -> palette[2]
          [] k = "info" -> palette[8]
          [] k = "light" -> Hex("ECF0F1")
          [] k = "dark" -> Hex("34495E")
          [] OTHER -> palette[3]]

VisualFoundations(color_scheme) ==
    IF color_scheme = "wong"
    THEN [colors |-> WongColors(WONG_PALETTE), palette |-> WONG_PALETTE]
    ELSE [colors |-> ACCESSIBLE_COLORS, palette |-> values(ACCESSIBLE_COLORS)]

ColorSchemes == {"accessible", "wong"}

(***************************************************************************)
(* The library's collection of datasets and its colour lookup.             *)
(***************************************************************************)
\* data_types = ['sine', 'exponential', 'spectrum', 'lightcurve', 'transit',
\*               'blackbody']
data_types == <<"sine", "exponential", "spectrum", "lightcurve", "transit", "blackbody">>

\* create_sample_data(..., noise_level=0.1): two steps of 0.05
DefaultNoise == 2

\* variant: every type is stored under its own name
FriendlyKeyPlain(dtype) == dtype

\* key = dtype if dtype != 'sine' else 'sine_wave'
FriendlyKey(dtype) == IF dtype # "sine" THEN dtype ELSE "sine_wave"

\* learning_dashboard_data(n_points) from random-source state s: call k of the
\* loop starts where the k - 1 calls before it left the random source
learning_dashboard_data(n_points, s) ==
    LET call(k) == create_sample_data(data_types[k], n_points, DefaultNoise,
                                      Advance(s, (k - 1) * LibraryDraws(data_types[k], n_points)))
        index(key) == CHOOSE k \in DOMAIN data_types : FriendlyKey(data_types[k]) = key
    IN [key \in {FriendlyKey(data_types[k]) : k \in DOMAIN data_types} |->
           <<call(index(key)).x, call(index(key)).y>>]

\* names a caller may ask for: the eight keys and some that are not keys
RequestedNames == ColorNames \cup {"Primary", "magenta", ""}

\* variant: the dictionary is indexed, so an unknown name raises
get_color_strict(colors, name) ==
    IF name \in DOMAIN colors
    THEN [raised |-> "none", value |-> colors[name]]
    ELSE [raised |-> "KeyError", value |-> <<>>]

\* return self.colors.get(name, self.colors['primary'])
get_color(colors, name) ==
    [raised |-> "none",
     value |-> IF name \in DOMAIN colors THEN colors[name] ELSE colors["primary"]]

NoLearned == [n_points |-> 0, rngBefore |-> 0, datasets |-> <<>>]

NoColour == [scheme |-> "none", name |-> "none", raised |-> "none", value |-> <<>>]

(***************************************************************************)
(* Identity of the colour objects.  heap is the sequence of the mutable    *)
(* objects; an object's identity is its index.  The two module-level       *)
(* objects come first.                                                     *)
(***************************************************************************)
AccessibleColorsId == 1
WongPaletteId == 2

\* the module after import: ACCESSIBLE_COLORS and WONG_PALETTE
ModuleObjects == <<ACCESSIBLE_COLORS, WONG_PALETTE>>

\* what a caller may pass as color_scheme
SchemeValues == {"accessible", "wong", "dark"}

\* variant: the instance keeps the module's dictionary itself
NewVisualFoundationsShared(h, color_scheme) ==
    IF color_scheme = "wong"
    THEN [heap |-> Append(h, WongColors(h[WongPaletteId])),
          colors |-> Len(h) + 1, palette |-> WongPaletteId]
    ELSE [heap |-> Append(h, values(h[AccessibleColorsId])),
          colors |-> AccessibleColorsId, palette |-> Len(h) + 1]

\* VisualFoundations.__init__ on heap h: 'wong' builds a new dictionary and
\* keeps WONG_PALETTE itself as palette; anything else copies
\* ACCESSIBLE_COLORS and makes a new list of its values
NewVisualFoundations(h, color_scheme) ==
    IF color_scheme = "wong"
    THEN [heap |-> Append(h, WongColors(h[WongPaletteId])),
          colors |-> Len(h) + 1, palette |-> WongPaletteId]
    ELSE [heap |-> h \o <<h[AccessibleColorsId], values(h[AccessibleColorsId])>>,
          colors |-> Len(h) + 1, palette |-> Len(h) + 2]

\* list_colors(): return self.colors.copy()
list_colors(h, instance) ==
    [heap |-> Append(h, h[instance.colors]), returned |-> Len(h) + 1]

\* the colour a program writes over an entry
Marker == Hex("FFFFFF")

(***************************************************************************)
(* What a generator call leaves in the attributes of its instance: neither *)
(* generator assigns to self.                                              *)
(***************************************************************************)
\* variant: the call keeps its last title in an attribute
AttributesAfterCaching(attrs, result) == [attrs EXCEPT !.palette = <<result.title>>]

AttributesAfter(attrs, result) == attrs

(***************************************************************************)
(* The environment diagnostic script.                                      *)
(*                                                                         *)
(* An environment says which imports raise ImportError (missing), which    *)
(* installed packages are older than the recommended version (old) or      *)
(* carry no __version__ (noversion), which operations of installed         *)
(* packages raise (broken), the interpreter version, the environment       *)
(* variables, and the two command-line flags.                              *)
(***************************************************************************)
Required == {"numpy", "scipy", "matplotlib", "pandas", "astropy", "plotly", "seaborn"}

Optional == {"bokeh", "jupyterlab", "ipywidgets", "pytest", "h5py", "sklearn",
             "visual_foundations"}

Packages == Required \cup Optional \cup {"packaging"}

Faults == {"astropy_submodules", "vf_data", "vf_colors", "numpy_ops", "numpy_fft",
           "mpl_plot", "mpl_file", "astropy_units", "astropy_coord"}

\* the ways an environment can differ from a complete installation
Deviations ==
    {<<"missing", p>> : p \in Packages}
    \cup {<<"old", p>> : p \in Required}
    \cup {<<"noversion", p>> : p \in Required}
    \cup {<<"broken", f>> : f \in Faults}
    \cup {<<"python", v>> : v \in {"3.7", "3.8"}}
    \cup {<<"astro_home", v>> : v \in {"unset", "notdir"}}
    \cup {<<"alt_home", v>> : v \in {"ASTRO_DEV_HOME", "ASTRONOMY_HOME"}}
    \cup {<<"venv", "system">>}

RECURSIVE SubsetsUpTo(_, _)
SubsetsUpTo(S, k) ==
    IF k = 0 THEN {{}}
    ELSE LET prev == SubsetsUpTo(S, k - 1)
         IN prev \cup {d \cup {a} : d \in prev, a \in S}

Chosen(D, kind) == {a[2] : a \in {b \in D : b[1] = kind}}

EnvOf(D, visual, verbose) ==
    [missing |-> Chosen(D, "missing"),
     old |-> Chosen(D, "old"),
     noversion |-> Chosen(D, "noversion"),
     broken |-> Chosen(D, "broken"),
     python |-> IF "3.7" \in Chosen(D, "python") THEN 37
                ELSE IF "3.8" \in Chosen(D, "python") THEN 38 ELSE 39,
     astro_home |-> IF "unset" \in Chosen(D, "astro_home") THEN "unset"
                    ELSE IF "notdir" \in Chosen(D, "astro_home") THEN "notdir" ELSE "dir",
     alt_home |-> Chosen(D, "alt_home"),
     venv |-> "system" \notin Chosen(D, "venv"),
     visual |-> visual,
     verbose |-> verbose]

Environments ==
    {EnvOf(D, visual, verbose) :
        D \in SubsetsUpTo(Deviations, MaxDeviations), visual \in BOOLEAN, verbose \in BOOLEAN}

\* TestResult(name, status, message, fix_hint=...): fix_hint is <<>> for None
TestResult(name, status, hint) == [name |-> name, status |-> status, hint |-> hint]

PASS == "pass"

FAIL == "fail"

WARN == "warn"

SKIP == "skip"

NoHint == <<>>

\* variant: a missing package is reported as a warning
test_import_lenient(e, package_name, import_name, has_min) ==
    IF import_name \in e.missing
    THEN TestResult(package_name, WARN, <<"pip install", import_name>>)
    ELSE TestResult(package_name, PASS, NoHint)

\* test_import(package_name, import_name, min_version)
test_import(e, package_name, import_name, has_min) ==
    IF import_name \in e.missing
    THEN TestResult(package_name, FAIL, <<"pip install", import_name>>)
    ELSE IF has_min /\ import_name \notin e.noversion
         THEN \* from packaging import version as pkg_version
              IF "packaging" \in e.missing
              THEN TestResult(package_name, FAIL, <<"pip install", import_name>>)
              ELSE IF import_name \in e.old
                   THEN TestResult(package_name, WARN,
                                   <<"pip install --upgrade", import_name>>)
                   ELSE TestResult(package_name, PASS, NoHint)
         ELSE TestResult(package_name, PASS, NoHint)

\* variant: a missing optional package is reported as a failure
optional_import_strict(e, name, import_name, hint) ==
    IF import_name \in e.missing
    THEN TestResult(name, FAIL, <<hint>>)
    ELSE TestResult(name, PASS, NoHint)

\* try: import <optional> ... except ImportError: WARN with a fix hint
optional_import(e, name, import_name, hint) ==
    IF import_name \in e.missing
    THEN TestResult(name, WARN, <<hint>>)
    ELSE TestResult(name, PASS, NoHint)

test_core_scientific_stack(e) ==
    <<test_import(e, "NumPy", "numpy", TRUE),
      test_import(e, "SciPy", "scipy", TRUE),
      test_import(e, "Matplotlib", "matplotlib", TRUE),
      test_import(e, "Pandas", "pandas", TRUE)>>

test_astronomy_libraries(e) ==
    <<test_import(e, "Astropy", "astropy", TRUE),
      IF "astropy" \in e.missing \/ "astropy_submodules" \in e.broken
      THEN TestResult("Astropy Units", FAIL, NoHint)
      ELSE TestResult("Astropy Units", PASS, NoHint)>>

test_visualization_tools(e) ==
    <<test_import(e, "Plotly", "plotly", TRUE),
      test_import(e, "Seaborn", "seaborn", TRUE),
      optional_import(e, "Bokeh", "bokeh", "pip install bokeh")>>

test_jupyter_components(e) ==
    <<optional_import(e, "JupyterLab", "jupyterlab", "pip install jupyterlab"),
      optional_import(e, "IPyWidgets", "ipywidgets", "pip install ipywidgets")>>

test_development_tools(e) ==
    <<optional_import(e, "Pytest", "pytest", "pip install pytest"),
      optional_import(e, "h5py", "h5py", "pip install h5py"),
      optional_import(e, "Scikit-learn", "sklearn", "pip install scikit-learn")>>

\* alt_names = ['ASTRO_DEV_HOME', 'ASTRONOMY_HOME']
alt_names == <<"ASTRO_DEV_HOME", "ASTRONOMY_HOME">>

\* TestResult('ASTRO_HOME', TestResult.PASS, f"{alt} set: {val}")
FoundAlternative(alt) ==
    [name |-> "ASTRO_HOME", status |-> PASS, hint |-> NoHint, message |-> <<alt, "set">>]

\* variant: the loop over alt_names has no break
astro_home_results_no_break(e) ==
    IF e.astro_home # "unset"
    THEN IF e.astro_home = "dir"
         THEN <<TestResult("ASTRO_HOME", PASS, NoHint)>>
         ELSE <<TestResult("ASTRO_HOME", WARN, <<"mkdir -p $ASTRO_HOME">>)>>
    ELSE IF e.alt_home = {}
         THEN <<TestResult("ASTRO_HOME", WARN, <<"export ASTRO_HOME=~/.astro">>)>>
         ELSE (IF alt_names[1] \in e.alt_home THEN <<FoundAlternative(alt_names[1])>> ELSE <<>>)
              \o (IF alt_names[2] \in e.alt_home THEN <<FoundAlternative(alt_names[2])>> ELSE <<>>)

\* the results of the ASTRO_HOME check: the variable itself, else the first
\* alternative name that is set (for alt in alt_names: ... break), else a warning
astro_home_results(e) ==
    IF e.astro_home # "unset"
    THEN IF e.astro_home = "dir"
         THEN <<TestResult("ASTRO_HOME", PASS, NoHint)>>
         ELSE <<TestResult("ASTRO_HOME", WARN, <<"mkdir -p $ASTRO_HOME">>)>>
    ELSE IF alt_names[1] \in e.alt_home
         THEN <<FoundAlternative(alt_names[1])>>
         ELSE IF alt_names[2] \in e.alt_home
              THEN <<FoundAlternative(alt_names[2])>>
              ELSE <<TestResult("ASTRO_HOME", WARN, <<"export ASTRO_HOME=~/.astro">>)>>

test_environment_config(e) ==
    astro_home_results(e) \o
    <<IF e.venv
      THEN TestResult("Virtual Environment", PASS, NoHint)
      ELSE TestResult("Virtual Environment", WARN,
                      <<"python -m venv ~/.astro/env && source ~/.astro/env/bin/activate">>),
      IF e.python >= 39
      THEN TestResult("Python Version", PASS, NoHint)
      ELSE IF e.python >= 38
           THEN TestResult("Python Version", WARN, NoHint)
           ELSE TestResult("Python Version", FAIL, <<"Install Python 3.9 or later">>)>>

\* from visual_foundations import VisualFoundations raises ImportError when the
\* file is not on the path or its own "import numpy as np" fails
test_visual_foundations(e) ==
    IF "visual_foundations" \in e.missing \/ "numpy" \in e.missing
    THEN <<TestResult("Visual Foundations Import", WARN,
                      <<"Ensure visual_foundations.py is in the scripts/ directory">>)>>
    ELSE <<TestResult("Visual Foundations Import", PASS, NoHint),
           IF "vf_data" \in e.broken
           THEN TestResult("Visual Foundations Data", FAIL, NoHint)
           ELSE TestResult("Visual Foundations Data", PASS, NoHint),
           IF "vf_colors" \in e.broken
           THEN TestResult("Visual Foundations Colors", WARN, NoHint)
           ELSE TestResult("Visual Foundations Colors", PASS, NoHint)>>

test_numpy_operations(e) ==
    IF "numpy" \in e.missing \/ "numpy_ops" \in e.broken
    THEN <<TestResult("NumPy Operations", FAIL, NoHint)>>
    ELSE IF "numpy_fft" \in e.broken
         THEN <<TestResult("NumPy Array Operations", PASS, NoHint),
                TestResult("NumPy Operations", FAIL, NoHint)>>
         ELSE <<TestResult("NumPy Array Operations", PASS, NoHint),
                TestResult("NumPy FFT", PASS, NoHint)>>

test_matplotlib_plotting(e) ==
    IF "matplotlib" \in e.missing \/ "numpy" \in e.missing \/ "mpl_plot" \in e.broken
    THEN <<TestResult("Matplotlib Plotting", FAIL, NoHint)>>
    ELSE IF "mpl_file" \in e.broken
         THEN <<TestResult("Matplotlib Plotting", FAIL, NoHint)>>
         ELSE <<TestResult("Matplotlib Plotting", PASS, NoHint)>>

test_astropy_units(e) ==
    IF "astropy" \in e.missing \/ "astropy_units" \in e.broken
    THEN <<TestResult("Astropy Functions", FAIL, NoHint)>>
    ELSE IF "astropy_coord" \in e.broken
         THEN <<TestResult("Astropy Unit Conversion", PASS, NoHint),
                TestResult("Astropy Functions", FAIL, NoHint)>>
         ELSE <<TestResult("Astropy Unit Conversion", PASS, NoHint),
                TestResult("Astropy Coordinates", PASS, NoHint)>>

\* TestResults.passed / failed / warnings / total
CountStatus(rs, status) == Cardinality({i \in DOMAIN rs : rs[i].status = status})

\* variant: skipped results count as passed
passed_or_skipped(rs) == CountStatus(rs, PASS) + CountStatus(rs, SKIP)

passed(rs) == CountStatus(rs, PASS)

failed(rs) == CountStatus(rs, FAIL)

warnings(rs) == CountStatus(rs, WARN)

total(rs) == Len(rs)

\* variant: warnings count as failure
ExitCodeStrict(s) == IF s.failed = 0 /\ s.warnings = 0 THEN 0 ELSE 1

\* return 0 if failed == 0 else 1
ExitCode(s) == IF s.failed = 0 THEN 0 ELSE 1

SectionTitles ==
    <<"Core Scientific Stack", "Astronomy Libraries", "Visualization Tools",
      "Jupyter Components", "Development Tools", "Environment Configuration",
      "Visual Foundations Library", "Functional Tests">>

(***************************************************************************)
(* Generator calls.                                                        *)
(***************************************************************************)
NoCall ==
    [module |-> "none", data_type |-> "none", n_points |-> 0, noise_level |-> 0,
     rngBefore |-> 0, result |-> [x |-> [den |-> 1, nums |-> <<>>], y |-> <<>>,
                                  title |-> "", branch |-> "none", raised |-> FALSE,
                                  draws |-> 0]]

(***************************************************************************)
(* The dashboard page: three controls and the callback they trigger.       *)
(***************************************************************************)
\* dcc.Dropdown(id='data-type', value='sine'), dcc.Slider(id='n-points',
\* value=100), dcc.Slider(id='noise-level', value=0.1): 0.1 is two steps of 0.05
DefaultControls == [data_type |-> "sine", n_points |-> 100, noise_level |-> 2]

\* dcc.Slider(id='n-points', min=20, max=300, step=10): the lowest positions
\* and the initial one
SliderPoints == {20 + 10 * k : k \in 0 .. PointSteps} \cup {DefaultControls.n_points}

\* dcc.Slider(id='noise-level', min=0, max=0.5, step=0.05), in steps
SliderNoise == (0 .. MaxNoise) \cup {DefaultControls.noise_level}

\* the values update_dashboard may be called with for data_type: the six of
\* the dropdown and one it does not offer
CallbackTypes == DashboardTypes \cup {"blackbody"}

\* DATA_TYPE_INFO.get(data_type, DATA_TYPE_INFO['sine']): title and axis labels
DATA_TYPE_INFO(data_type) ==
    CASE data_type = "exponential" ->
            [title |-> "Exponential Decay", xlabel |-> "Time", ylabel |-> "Intensity"]
      [] data_type = "spectrum" ->
            [title |-> "Astronomical Spectrum",
             xlabel |-> "Wavelength (arbitrary units)", ylabel |-> "Relative Flux"]
      [] data_type = "lightcurve" ->
            [title |-> "Stellar Light Curve", xlabel |-> "Time (days)",
             ylabel |-> "Relative Brightness"]
      [] data_type = "transit" ->
            [title |-> "Exoplanet Transit", xlabel |-> "Time (hours)",
             ylabel |-> "Relative Flux"]
      [] data_type = "random" ->
            [title |-> "Random Walk", xlabel |-> "Step Number",
             ylabel |-> "Cumulative Value"]
      [] OTHER ->
            [title |-> "Sine Wave", xlabel |-> "Phase / Time", ylabel |-> "Amplitude"]

(***************************************************************************)
(* The numbers behind a series, for the statistics: each y value in units  *)
(* of 1e-4 / RandRes, the functions in fixed point (accurate to about      *)
(* 2e-3, sine by Bhaskara's formula).                                      *)
(***************************************************************************)
\* sin(t) for 0 <= t <= pi, t in units of 1e-3 and the result in units of 1e-4
SinHalfTurn(t) ==
    LET p == t * (3142 - t)
    IN (4 * p * 100) \div ((5 * 3142 * 3142 - 4 * p) \div 400)

\* np.sin(t) for t >= 0, t and the result in units of 1e-4
Sin(t) ==
    LET r == t % 62832
    IN IF r <= 31416 THEN SinHalfTurn(r \div 10) ELSE 0 - SinHalfTurn((r - 31416) \div 10)

\* np.exp(-t) for 0 <= t < 10 in units of 1e-4, in units of 1e-4
Exp(t) == Mul(exp_table[(t \div 10000) + 1], ExpFraction(t % 10000))

\* the part of a y value that is a function of x = num/den, in units of 1e-4
Base(fn, num, den) ==
    CASE fn = "sin(x)" -> Sin((10000 * num) \div den)
      [] fn = "exp(-x/3)" -> Exp((10000 * num) \div (3 * den))
      [] fn = "1+0.1*sin(5x)" -> 10000 + Sin((50000 * num) \div den) \div 10
      [] fn = "1-0.01*x+0.08*sin(2*pi*x/2.5)" ->
             10000 - (100 * num) \div den
                 + (8 * Sin((62832 * ((2 * num) % (5 * den))) \div (5 * den))) \div 100
      [] fn = "ones" -> 0
      [] fn = "cumsum" -> 0

Value(sample) ==
    (Base(sample.fn, sample.num, sample.den) + sample.off) * RandRes + sample.noise

Values(y) == [i \in DOMAIN y |-> Value(y[i])]

\* v[lo] + ... + v[hi], added pairwise
RECURSIVE SumBetween(_, _, _)
SumBetween(v, lo, hi) ==
    IF lo > hi THEN 0
    ELSE IF lo = hi THEN v[lo]
    ELSE SumBetween(v, lo, (lo + hi) \div 2) + SumBetween(v, ((lo + hi) \div 2) + 1, hi)

Sum(v, n) == SumBetween(v, 1, n)

LessOrEqual(a, b) == a <= b

\* variant: the first value of the series
np_first(v) == [num |-> v[1], den |-> 1]

\* np.min(y), as the fraction num / den
np_min(v) == [num |-> SortSeq(v, LessOrEqual)[1], den |-> 1]

\* np.max(y)
np_amax(v) == [num |-> SortSeq(v, LessOrEqual)[Len(v)], den |-> 1]

\* np.mean(y)
np_mean(v) == [num |-> Sum(v, Len(v)), den |-> Len(v)]

\* np.median(y): the middle value of the sorted series, or the mean of the
\* two middle values
np_median(v) ==
    LET sorted == SortSeq(v, LessOrEqual)
        n == Len(v)
    IN IF n % 2 = 1
       THEN [num |-> sorted[(n + 1) \div 2], den |-> 1]
       ELSE [num |-> sorted[n \div 2] + sorted[(n \div 2) + 1], den |-> 2]

\* the largest r in lo .. hi with r * r <= m
RECURSIVE SqrtBetween(_, _, _)
SqrtBetween(m, lo, hi) ==
    IF lo = hi THEN lo
    ELSE LET mid == (lo + hi + 1) \div 2
         IN IF mid * mid <= m THEN SqrtBetween(m, mid, hi)
                              ELSE SqrtBetween(m, lo, mid - 1)

\* np.std(y) = sqrt(mean(abs(y - mean(y)) ** 2)), the deviations rounded to
\* units of 1e-2 / RandRes
np_std(v) ==
    LET n == Len(v)
        sum == Sum(v, n)
        d == [i \in DOMAIN v |-> (n * v[i] - sum) \div (100 * n)]
        squares == [i \in DOMAIN v |-> d[i] * d[i]]
    IN [num |-> SqrtBetween(Sum(squares, n) \div n, 0, 46340), den |-> 1]

\* np.mean(y), np.std(y), np.min(y), np.max(y), max - min, np.median(y), each
\* as a fraction num / den
Statistics(y) ==
    LET v == Values(y)
    IN [Mean |-> np_mean(v), StdDev |-> np_std(v), Median |-> np_median(v),
        Min |-> np_min(v), Max |-> np_amax(v),
        Range |-> [num |-> np_amax(v).num - np_min(v).num, den |-> 1]]

\* nothing rendered yet
NoOutputs ==
    [generated |-> <<>>, main_fig |-> <<>>, hist_fig |-> <<>>, stats_panel |-> <<>>,
     education_panel |-> <<>>]

\* variant: the education panel is left as it was
update_dashboard_stale_education(shown, data_type, n_points, noise_level, s) ==
    LET data == _generate_data(data_type, n_points, noise_level, s)
        info == DATA_TYPE_INFO(data_type)
    IN [generated |-> <<[data_type |-> data_type, n_points |-> n_points,
                         noise_level |-> noise_level, rngBefore |-> s, result |-> data]>>,
        main_fig |-> <<[x |-> data.x, y |-> data.y, title |-> info.title,
                        xaxis |-> info.xlabel, yaxis |-> info.ylabel]>>,
        hist_fig |-> <<[x |-> data.y, xaxis |-> info.ylabel]>>,
        stats_panel |-> <<[stats |-> Statistics(data.y), n_points |-> n_points,
                           noise_level |-> noise_level]>>,
        education_panel |-> shown.education_panel]

\* update_dashboard(data_type, n_points, noise_level): the generator calls it
\* makes and the four values it returns; shown is what the page showed before
update_dashboard(shown, data_type, n_points, noise_level, s) ==
    LET data == _generate_data(data_type, n_points, noise_level, s)
        info == DATA_TYPE_INFO(data_type)
    IN [generated |-> <<[data_type |-> data_type, n_points |-> n_points,
                         noise_level |-> noise_level, rngBefore |-> s, result |-> data]>>,
        main_fig |-> <<[x |-> data.x, y |-> data.y, title |-> info.title,
                        xaxis |-> info.xlabel, yaxis |-> info.ylabel]>>,
        hist_fig |-> <<[x |-> data.y, xaxis |-> info.ylabel]>>,
        stats_panel |-> <<[stats |-> Statistics(data.y), n_points |-> n_points,
                           noise_level |-> noise_level]>>,
        education_panel |-> <<[title |-> info.title]>>]

\* the random source after the generator call of one callback
AfterCallback(s, out) == Advance(s, out.generated[1].result.draws)

(***************************************************************************)
(* The entry points that need a third-party package.                       *)
(***************************************************************************)
ThirdParty == {"dash", "plotly", "matplotlib"}

\* foundation_dashboard.py: try: import dash; from dash import ...; import
\* plotly.graph_objects as go; DASH_AVAILABLE = True / except ImportError: False
DASH_AVAILABLE(imp) == {"dash", "plotly"} \subseteq imp

\* visual_foundations.py: try: import plotly...; PLOTLY_AVAILABLE = True
PLOTLY_AVAILABLE(imp) == "plotly" \in imp

\* visual_foundations.py: try: import matplotlib...; MATPLOTLIB_AVAILABLE = True
MATPLOTLIB_AVAILABLE(imp) == "matplotlib" \in imp

NoApp == [created |-> FALSE, layout |-> FALSE, callbacks |-> FALSE, serving |-> FALSE]

NoPlot ==
    [fn |-> "none", style |-> "none", annotate |-> FALSE, save |-> FALSE,
     show |-> FALSE, datasets |-> 0, labels |-> 0, raised |-> "none",
     events |-> <<>>, traces |-> <<>>]

Styles == {"line", "scatter", "bar", "pie"}

\* variant: the plot is shown before it is saved
ShowThenSave(saveEvent, save, showEvent, show) ==
    (IF show THEN <<showEvent>> ELSE <<>>) \o (IF save THEN <<saveEvent>> ELSE <<>>)

\* the steps a renderer ends with: save if a path is given, then show if asked
SaveThenShow(saveEvent, save, showEvent, show) ==
    (IF save THEN <<saveEvent>> ELSE <<>>) \o (IF show THEN <<showEvent>> ELSE <<>>)

\* variant: the figure is created before the availability check
foundation_plot_late_check(imp, style, annotate, save, show) ==
    [NoPlot EXCEPT !.fn = "foundation_plot", !.style = style, !.annotate = annotate,
                   !.save = save, !.show = show,
                   !.raised = IF ~MATPLOTLIB_AVAILABLE(imp) THEN "ImportError" ELSE "none",
                   !.events = <<"plt.subplots">>]

\* VisualFoundations.foundation_plot(x, y, ..., style, annotate_peaks, save_path, show)
foundation_plot(imp, style, annotate, save, show) ==
    LET call == [NoPlot EXCEPT !.fn = "foundation_plot", !.style = style,
                               !.annotate = annotate, !.save = save, !.show = show]
    IN IF ~MATPLOTLIB_AVAILABLE(imp)
       THEN [call EXCEPT !.raised = "ImportError"]
       ELSE IF style \notin {"line", "scatter", "bar"}
            THEN [call EXCEPT !.raised = "ValueError", !.events = <<"plt.subplots">>]
            ELSE [call EXCEPT
                    !.events = <<"plt.subplots", style>>
                               \o (IF annotate THEN <<"_annotate_peaks">> ELSE <<>>)
                               \o <<"plt.tight_layout">>
                               \o SaveThenShow("fig.savefig", save, "plt.show", show)]

\* VisualFoundations.interactive_plot(x, y, ..., save_html, show)
interactive_plot(imp, save, show) ==
    LET call == [NoPlot EXCEPT !.fn = "interactive_plot", !.save = save, !.show = show]
    IN IF ~PLOTLY_AVAILABLE(imp)
       THEN [call EXCEPT !.raised = "ImportError"]
       ELSE [call EXCEPT
               !.events = <<"go.Figure", "fig.add_trace", "fig.update_layout">>
                          \o SaveThenShow("fig.write_html", save, "fig.show", show)]

Min(a, b) == IF a < b THEN a ELSE b

\* variant: the grid is filled column by column
positions_by_column == <<<<1, 1>>, <<2, 1>>, <<1, 2>>, <<2, 2>>>>

\* positions = [(1, 1), (1, 2), (2, 1), (2, 2)]
positions == <<<<1, 1>>, <<1, 2>>, <<2, 1>>, <<2, 2>>>>

\* VisualFoundations.comparison_plot(datasets, labels, ..., save_html, show), for
\* len(datasets) = datasets and len(labels) = labels; a trace names the index
\* of its dataset and of its label and its grid cell
comparison_plot(imp, datasets, labels, save, show) ==
    LET call == [NoPlot EXCEPT !.fn = "comparison_plot", !.datasets = datasets,
                               !.labels = labels, !.save = save, !.show = show]
        n_datasets == Min(datasets, 4)
        \* zip(datasets[:n_datasets], labels[:n_datasets])
        zipped == Min(n_datasets, Min(labels, n_datasets))
    IN IF ~PLOTLY_AVAILABLE(imp)
       THEN [call EXCEPT !.raised = "ImportError"]
       ELSE [call EXCEPT
               !.events = <<"make_subplots">>
                          \o [i \in 1 .. zipped |-> "fig.add_trace"]
                          \o <<"fig.update_layout">>
                          \o SaveThenShow("fig.write_html", save, "fig.show", show),
               !.traces = [i \in 1 .. zipped |->
                              [dataset |-> i, label |-> i, row |-> positions[i][1],
                               col |-> positions[i][2]]]]

\* variant: __init__ without the availability check
FoundationDashboardUnchecked(imp) == [raised |-> "none", created |-> TRUE]

\* FoundationDashboard.__init__ up to self.colors = ACCESSIBLE_COLORS
FoundationDashboard(imp) ==
    IF ~DASH_AVAILABLE(imp)
    THEN [raised |-> "ImportError", created |-> FALSE]
    ELSE [raised |-> "none", created |-> TRUE]

\* variant: every handler returns 1
HandlerReturnAlwaysOne(exception) == "1"

\* main(): the value each handler returns
HandlerReturn(exception) ==
    CASE exception = "ImportError" -> "1"
      [] exception = "KeyboardInterrupt" -> "0"
      [] OTHER -> "1"

\* main(): what each handler prints
HandlerMessage(exception) ==
    CASE exception = "ImportError" -> "Missing required packages! pip install dash plotly numpy pandas"
      [] exception = "KeyboardInterrupt" -> "Dashboard stopped. Goodbye!"
      [] OTHER -> "Error"

\* the diagnostic script is not running
NoEnv ==
    [missing |-> {}, old |-> {}, noversion |-> {}, broken |-> {}, python |-> 39,
     astro_home |-> "dir", alt_home |-> {}, venv |-> TRUE,
     visual |-> FALSE, verbose |-> TRUE]

NoSummary == [passed |-> 0, failed |-> 0, warnings |-> 0, total |-> 0]

GenInit ==
    /\ rng \in RngStates
    /\ last = NoCall
    /\ inst = VisualFoundations("accessible")
    /\ env = NoEnv
    /\ dpc = "idle"
    /\ results = <<>>
    /\ sections = <<>>
    /\ summary = NoSummary
    /\ visualRuns = 0
    /\ visualOutcome = "none"
    /\ exitCode = -1
    /\ importable = {}
    /\ entry = "none"
    /\ epc = "idle"
    /\ app = NoApp
    /\ pending = "none"
    /\ printed = <<>>
    /\ mainRet = "unset"
    /\ exited = -1
    /\ plot = NoPlot
    /\ controls = DefaultControls
    /\ outputs = NoOutputs
    /\ learned = NoLearned
    /\ colour = NoColour
    /\ heap = ModuleObjects
    /\ instances = <<>>
    /\ listed = <<>>
    /\ tracker = <<>>

CallRecord(module, data_type, n_points, noise_level) ==
    [module |-> module, data_type |-> data_type, n_points |-> n_points,
     noise_level |-> noise_level, rngBefore |-> rng,
     result |-> Generate(module, data_type, n_points, noise_level, rng)]

\* x, y = self._generate_data(data_type, n_points, noise_level)
GenerateData ==
    \E data_type \in DataTypes, n_points \in 1 .. MaxPoints, noise_level \in 0 .. MaxNoise :
        /\ last' = CallRecord("dashboard", data_type, n_points, noise_level)
        /\ rng' = Advance(rng, last'.result.draws)
        /\ inst' = AttributesAfter(inst, last'.result)
        /\ UNCHANGED <<diagVars, entryVars, dashVars, libVars, objVars>>

\* x, y, title = vf.create_sample_data(data_type, n_points, noise_level)
CreateSampleData ==
    \E data_type \in DataTypes, n_points \in 1 .. MaxPoints, noise_level \in 0 .. MaxNoise :
        /\ last' = CallRecord("library", data_type, n_points, noise_level)
        /\ rng' = Advance(rng, last'.result.draws)
        /\ inst' = AttributesAfter(inst, last'.result)
        /\ UNCHANGED <<diagVars, entryVars, dashVars, libVars, objVars>>

GenNext == GenerateData \/ CreateSampleData

GenSpec == GenInit /\ [][GenNext]_vars

(***************************************************************************)
(* Transit light curves on finer grids (TransitSpec).                      *)
(***************************************************************************)
\* the finest grid has 10 * MaxTransitSteps + 1 samples
MaxTransitSteps == 20

TransitInit ==
    /\ rng \in RngStates
    /\ last = NoCall
    /\ inst = VisualFoundations("accessible")
    /\ env = NoEnv
    /\ dpc = "idle"
    /\ results = <<>>
    /\ sections = <<>>
    /\ summary = NoSummary
    /\ visualRuns = 0
    /\ visualOutcome = "none"
    /\ exitCode = -1
    /\ importable = {}
    /\ entry = "none"
    /\ epc = "idle"
    /\ app = NoApp
    /\ pending = "none"
    /\ printed = <<>>
    /\ mainRet = "unset"
    /\ exited = -1
    /\ plot = NoPlot
    /\ controls = DefaultControls
    /\ outputs = NoOutputs
    /\ learned = NoLearned
    /\ colour = NoColour
    /\ heap = ModuleObjects
    /\ instances = <<>>
    /\ listed = <<>>
    /\ tracker = <<>>

\* x, y = self._generate_data('transit', n_points, noise_level)
GenerateTransit ==
    \E n_points \in {10 * k + 1 : k \in 0 .. MaxTransitSteps}, noise_level \in 0 .. MaxNoise :
        /\ last' = CallRecord("dashboard", "transit", n_points, noise_level)
        /\ rng' = Advance(rng, last'.result.draws)
        /\ inst' = AttributesAfter(inst, last'.result)
        /\ UNCHANGED <<diagVars, entryVars, dashVars, libVars, objVars>>

\* x, y, title = vf.create_sample_data('transit', n_points, noise_level)
CreateSampleTransit ==
    \E n_points \in {10 * k + 1 : k \in 0 .. MaxTransitSteps}, noise_level \in 0 .. MaxNoise :
        /\ last' = CallRecord("library", "transit", n_points, noise_level)
        /\ rng' = Advance(rng, last'.result.draws)
        /\ inst' = AttributesAfter(inst, last'.result)
        /\ UNCHANGED <<diagVars, entryVars, dashVars, libVars, objVars>>

TransitNext == GenerateTransit \/ CreateSampleTransit

TransitSpec == TransitInit /\ [][TransitNext]_vars

(***************************************************************************)
(* run_all_tests, one step per test section, then the summary, the visual  *)
(* test and the return.                                                    *)
(***************************************************************************)
DiagInit ==
    /\ rng = 0
    /\ last = NoCall
    /\ inst = VisualFoundations("accessible")
    /\ env \in Environments
    /\ dpc = "core"
    /\ results = <<>>
    /\ sections = <<>>
    /\ summary = NoSummary
    /\ visualRuns = 0
    /\ visualOutcome = "none"
    /\ exitCode = -1
    /\ importable = {}
    /\ entry = "none"
    /\ epc = "idle"
    /\ app = NoApp
    /\ pending = "none"
    /\ printed = <<>>
    /\ mainRet = "unset"
    /\ exited = -1
    /\ plot = NoPlot
    /\ controls = DefaultControls
    /\ outputs = NoOutputs
    /\ learned = NoLearned
    /\ colour = NoColour
    /\ heap = ModuleObjects
    /\ instances = <<>>
    /\ listed = <<>>
    /\ tracker = <<>>

\* variant: results are dropped once the tracker holds a FAIL
add_all_until_fail(all_results, rs) ==
    IF \E i \in DOMAIN all_results : all_results[i].status = FAIL
    THEN all_results
    ELSE all_results \o rs

\* for r in results: all_results.add(r)
add_all(all_results, rs) == all_results \o rs

CoreStack ==
    /\ dpc = "core"
    /\ sections' = Append(sections, SectionTitles[1])
    /\ results' = add_all(results, test_core_scientific_stack(env))
    /\ dpc' = "astronomy"
    /\ UNCHANGED <<genVars, entryVars, dashVars, libVars, objVars, env, summary, visualRuns, visualOutcome, exitCode>>

AstronomyLibraries ==
    /\ dpc = "astronomy"
    /\ sections' = Append(sections, SectionTitles[2])
    /\ results' = add_all(results, test_astronomy_libraries(env))
    /\ dpc' = "visualization"
    /\ UNCHANGED <<genVars, entryVars, dashVars, libVars, objVars, env, summary, visualRuns, visualOutcome, exitCode>>

VisualizationTools ==
    /\ dpc = "visualization"
    /\ sections' = Append(sections, SectionTitles[3])
    /\ results' = add_all(results, test_visualization_tools(env))
    /\ dpc' = "jupyter"
    /\ UNCHANGED <<genVars, entryVars, dashVars, libVars, objVars, env, summary, visualRuns, visualOutcome, exitCode>>

JupyterComponents ==
    /\ dpc = "jupyter"
    /\ sections' = Append(sections, SectionTitles[4])
    /\ results' = add_all(results, test_jupyter_components(env))
    /\ dpc' = "development"
    /\ UNCHANGED <<genVars, entryVars, dashVars, libVars, objVars, env, summary, visualRuns, visualOutcome, exitCode>>

DevelopmentTools ==
    /\ dpc = "development"
    /\ sections' = Append(sections, SectionTitles[5])
    /\ results' = add_all(results, test_development_tools(env))
    /\ dpc' = "environment"
    /\ UNCHANGED <<genVars, entryVars, dashVars, libVars, objVars, env, summary, visualRuns, visualOutcome, exitCode>>

EnvironmentConfiguration ==
    /\ dpc = "environment"
    /\ sections' = Append(sections, SectionTitles[6])
    /\ results' = add_all(results, test_environment_config(env))
    /\ dpc' = "visual_foundations"
    /\ UNCHANGED <<genVars, entryVars, dashVars, libVars, objVars, env, summary, visualRuns, visualOutcome, exitCode>>

VisualFoundationsLibrary ==
    /\ dpc = "visual_foundations"
    /\ sections' = Append(sections, SectionTitles[7])
    /\ results' = add_all(results, test_visual_foundations(env))
    /\ dpc' = "functional"
    /\ UNCHANGED <<genVars, entryVars, dashVars, libVars, objVars, env, summary, visualRuns, visualOutcome, exitCode>>

FunctionalTests ==
    /\ dpc = "functional"
    /\ sections' = Append(sections, SectionTitles[8])
    /\ results' = add_all(add_all(add_all(results, test_numpy_operations(env)),
                                   test_matplotlib_plotting(env)),
                           test_astropy_units(env))
    /\ dpc' = "summary"
    /\ UNCHANGED <<genVars, entryVars, dashVars, libVars, objVars, env, summary, visualRuns, visualOutcome, exitCode>>

Summary ==
    /\ dpc = "summary"
    /\ summary' = [passed |-> passed(results), failed |-> failed(results),
                   warnings |-> warnings(results), total |-> total(results)]
    /\ dpc' = "visual"
    /\ UNCHANGED <<genVars, entryVars, dashVars, libVars, objVars, env, results, sections, visualRuns, visualOutcome, exitCode>>

\* variant: the visual test does not depend on the failures
RunsVisualTestAnyway(visual, counts) == visual

\* if visual and failed == 0:
RunsVisualTest(visual, counts) == visual /\ counts.failed = 0

\* if visual and failed == 0: run_visual_test(show_plot=True), whose outcome
\* (True, False or an exception, which is caught) is not used
VisualTest ==
    /\ dpc = "visual"
    /\ RunsVisualTest(env.visual, summary)
    /\ visualRuns' = visualRuns + 1
    /\ visualOutcome' \in {"true", "false", "raised"}
    /\ dpc' = "return"
    /\ UNCHANGED <<genVars, entryVars, dashVars, libVars, objVars, env, results, sections, summary, exitCode>>

NoVisualTest ==
    /\ dpc = "visual"
    /\ ~RunsVisualTest(env.visual, summary)
    /\ dpc' = "return"
    /\ UNCHANGED <<genVars, entryVars, dashVars, libVars, objVars, env, results, sections, summary, visualRuns, visualOutcome, exitCode>>

Return ==
    /\ dpc = "return"
    /\ exitCode' = ExitCode(summary)
    /\ dpc' = "done"
    /\ UNCHANGED <<genVars, entryVars, dashVars, libVars, objVars, env, results, sections, summary, visualRuns, visualOutcome>>

DiagNext ==
    \/ CoreStack
    \/ AstronomyLibraries
    \/ VisualizationTools
    \/ JupyterComponents
    \/ DevelopmentTools
    \/ EnvironmentConfiguration
    \/ VisualFoundationsLibrary
    \/ FunctionalTests
    \/ Summary
    \/ VisualTest
    \/ NoVisualTest
    \/ Return

DiagSpec == DiagInit /\ [][DiagNext]_vars

(***************************************************************************)
(* The dashboard script (main) and a user of the library's renderers.      *)
(***************************************************************************)
EntryInit ==
    /\ rng = 0
    /\ last = NoCall
    /\ inst = VisualFoundations("accessible")
    /\ env = NoEnv
    /\ dpc = "idle"
    /\ results = <<>>
    /\ sections = <<>>
    /\ summary = NoSummary
    /\ visualRuns = 0
    /\ visualOutcome = "none"
    /\ exitCode = -1
    /\ importable \in SUBSET ThirdParty
    /\ entry \in {"dashboard", "library"}
    /\ epc = (IF entry = "dashboard" THEN "main" ELSE "library")
    /\ app = NoApp
    /\ pending = "none"
    /\ printed = <<>>
    /\ mainRet = "unset"
    /\ exited = -1
    /\ plot = NoPlot
    /\ controls = DefaultControls
    /\ outputs = NoOutputs
    /\ learned = NoLearned
    /\ colour = NoColour
    /\ heap = ModuleObjects
    /\ instances = <<>>
    /\ listed = <<>>
    /\ tracker = <<>>

\* dashboard = FoundationDashboard(): the availability test and the Dash app
Construct ==
    /\ epc = "main"
    /\ LET made == FoundationDashboard(importable)
       IN /\ app' = [app EXCEPT !.created = made.created]
          /\ pending' = made.raised
          /\ epc' = IF made.raised = "none" THEN "layout" ELSE "handler"
    /\ UNCHANGED <<genVars, diagVars, dashVars, libVars, objVars, importable, entry, exited, printed, mainRet, plot>>

\* self._setup_layout()
SetupLayout ==
    /\ epc = "layout"
    /\ app' = [app EXCEPT !.layout = TRUE]
    /\ epc' = "callbacks"
    /\ UNCHANGED <<genVars, diagVars, dashVars, libVars, objVars, importable, entry, exited, pending, printed, mainRet, plot>>

\* self._setup_callbacks()
SetupCallbacks ==
    /\ epc = "callbacks"
    /\ app' = [app EXCEPT !.callbacks = TRUE]
    /\ epc' = "run"
    /\ UNCHANGED <<genVars, diagVars, dashVars, libVars, objVars, importable, entry, exited, pending, printed, mainRet, plot>>

\* dashboard.run(): self.app.run_server(...)
Run ==
    /\ epc = "run"
    /\ app' = [app EXCEPT !.serving = TRUE]
    /\ epc' = "serving"
    /\ UNCHANGED <<genVars, diagVars, dashVars, libVars, objVars, importable, entry, exited, pending, printed, mainRet, plot>>

\* the server is interrupted (Ctrl+C) or fails
ServerRaises ==
    /\ epc = "serving"
    /\ pending' \in {"KeyboardInterrupt", "Exception", "ImportError"}
    /\ app' = [app EXCEPT !.serving = FALSE]
    /\ epc' = "handler"
    /\ UNCHANGED <<genVars, diagVars, dashVars, libVars, objVars, importable, entry, exited, printed, mainRet, plot>>

\* run_server returns: main() falls off its try block and returns None
ServerReturns ==
    /\ epc = "serving"
    /\ app' = [app EXCEPT !.serving = FALSE]
    /\ mainRet' = "None"
    /\ epc' = "done"
    /\ UNCHANGED <<genVars, diagVars, dashVars, libVars, objVars, importable, entry, exited, pending, printed, plot>>

\* except ImportError / except KeyboardInterrupt / except Exception
Handle ==
    /\ epc = "handler"
    /\ printed' = Append(printed, HandlerMessage(pending))
    /\ mainRet' = HandlerReturn(pending)
    /\ epc' = "done"
    /\ UNCHANGED <<genVars, diagVars, dashVars, libVars, objVars, importable, entry, exited, app, pending, plot>>

\* exit(main()): None exits with status 0
ExitStatus(ret) == IF ret = "1" THEN 1 ELSE 0

\* if __name__ == "__main__": exit(main())
Exit ==
    /\ epc = "done"
    /\ exited' = ExitStatus(mainRet)
    /\ epc' = "exited"
    /\ UNCHANGED <<genVars, diagVars, dashVars, libVars, objVars, importable, entry, app, pending, printed, mainRet, plot>>

FoundationPlot ==
    /\ epc = "library"
    /\ \E style \in Styles, annotate \in BOOLEAN, save \in BOOLEAN, show \in BOOLEAN :
          plot' = foundation_plot(importable, style, annotate, save, show)
    /\ UNCHANGED <<genVars, diagVars, dashVars, libVars, objVars, importable, entry, exited, epc, app, pending, printed, mainRet>>

InteractivePlot ==
    /\ epc = "library"
    /\ \E save \in BOOLEAN, show \in BOOLEAN :
          plot' = interactive_plot(importable, save, show)
    /\ UNCHANGED <<genVars, diagVars, dashVars, libVars, objVars, importable, entry, exited, epc, app, pending, printed, mainRet>>

ComparisonPlot ==
    /\ epc = "library"
    /\ \E datasets \in 0 .. MaxDatasets, labels \in 0 .. MaxDatasets,
          save \in BOOLEAN, show \in BOOLEAN :
          plot' = comparison_plot(importable, datasets, labels, save, show)
    /\ UNCHANGED <<genVars, diagVars, dashVars, libVars, objVars, importable, entry, exited, epc, app, pending, printed, mainRet>>

EntryNext ==
    \/ Construct
    \/ SetupLayout
    \/ SetupCallbacks
    \/ Run
    \/ ServerRaises
    \/ ServerReturns
    \/ Handle
    \/ Exit
    \/ FoundationPlot
    \/ InteractivePlot
    \/ ComparisonPlot

EntrySpec == EntryInit /\ [][EntryNext]_vars

(***************************************************************************)
(* The dashboard page in a browser (DashSpec).                             *)
(***************************************************************************)
DashInit ==
    /\ rng \in RngStates
    /\ last = NoCall
    /\ inst = VisualFoundations("accessible")
    /\ env = NoEnv
    /\ dpc = "idle"
    /\ results = <<>>
    /\ sections = <<>>
    /\ summary = NoSummary
    /\ visualRuns = 0
    /\ visualOutcome = "none"
    /\ exitCode = -1
    /\ importable = ThirdParty
    /\ entry = "dashboard"
    /\ epc = "serving"
    /\ app = [created |-> TRUE, layout |-> TRUE, callbacks |-> TRUE, serving |-> TRUE]
    /\ pending = "none"
    /\ printed = <<>>
    /\ mainRet = "unset"
    /\ exited = -1
    /\ plot = NoPlot
    /\ controls = DefaultControls
    /\ outputs = NoOutputs
    /\ learned = NoLearned
    /\ colour = NoColour
    /\ heap = ModuleObjects
    /\ instances = <<>>
    /\ listed = <<>>
    /\ tracker = <<>>

\* the page is loaded: Dash calls the callback with the initial values
PageLoad ==
    /\ outputs = NoOutputs
    /\ learned = NoLearned
    /\ colour = NoColour
    /\ heap = ModuleObjects
    /\ instances = <<>>
    /\ listed = <<>>
    /\ tracker = <<>>
    /\ outputs' = update_dashboard(outputs, controls.data_type, controls.n_points,
                                   controls.noise_level, rng)
    /\ rng' = AfterCallback(rng, outputs')
    /\ last' = [outputs'.generated[1] EXCEPT !.module = "dashboard"]
    /\ UNCHANGED <<inst, diagVars, entryVars, libVars, objVars, controls>>

\* the data-type input changes: the user picks another entry of the dropdown,
\* or a request carries a value the dropdown does not offer
ChangeDataType ==
    /\ outputs # NoOutputs
    /\ \E data_type \in CallbackTypes \ {controls.data_type} :
          /\ controls' = [controls EXCEPT !.data_type = data_type]
          /\ outputs' = update_dashboard(outputs, data_type, controls.n_points,
                                         controls.noise_level, rng)
    /\ rng' = AfterCallback(rng, outputs')
    /\ last' = [outputs'.generated[1] EXCEPT !.module = "dashboard"]
    /\ UNCHANGED <<inst, diagVars, entryVars, libVars, objVars>>

\* the user moves the n-points slider
ChangeNPoints ==
    /\ outputs # NoOutputs
    /\ \E n_points \in SliderPoints \ {controls.n_points} :
          /\ controls' = [controls EXCEPT !.n_points = n_points]
          /\ outputs' = update_dashboard(outputs, controls.data_type, n_points,
                                         controls.noise_level, rng)
    /\ rng' = AfterCallback(rng, outputs')
    /\ last' = [outputs'.generated[1] EXCEPT !.module = "dashboard"]
    /\ UNCHANGED <<inst, diagVars, entryVars, libVars, objVars>>

\* the user moves the noise-level slider
ChangeNoiseLevel ==
    /\ outputs # NoOutputs
    /\ \E noise_level \in SliderNoise \ {controls.noise_level} :
          /\ controls' = [controls EXCEPT !.noise_level = noise_level]
          /\ outputs' = update_dashboard(outputs, controls.data_type,
                                         controls.n_points, noise_level, rng)
    /\ rng' = AfterCallback(rng, outputs')
    /\ last' = [outputs'.generated[1] EXCEPT !.module = "dashboard"]
    /\ UNCHANGED <<inst, diagVars, entryVars, libVars, objVars>>

DashNext ==
    \/ PageLoad
    \/ ChangeDataType
    \/ ChangeNPoints
    \/ ChangeNoiseLevel

DashSpec == DashInit /\ [][DashNext]_vars

(***************************************************************************)
(* A program that uses the library's utilities (LibSpec).                  *)
(***************************************************************************)
LibInit ==
    /\ rng \in RngStates
    /\ last = NoCall
    /\ inst = VisualFoundations("accessible")
    /\ env = NoEnv
    /\ dpc = "idle"
    /\ results = <<>>
    /\ sections = <<>>
    /\ summary = NoSummary
    /\ visualRuns = 0
    /\ visualOutcome = "none"
    /\ exitCode = -1
    /\ importable = {}
    /\ entry = "none"
    /\ epc = "idle"
    /\ app = NoApp
    /\ pending = "none"
    /\ printed = <<>>
    /\ mainRet = "unset"
    /\ exited = -1
    /\ plot = NoPlot
    /\ controls = DefaultControls
    /\ outputs = NoOutputs
    /\ learned = NoLearned
    /\ colour = NoColour
    /\ heap = ModuleObjects
    /\ instances = <<>>
    /\ listed = <<>>
    /\ tracker = <<>>

\* data = vf.learning_dashboard_data(n_points)
LearningDashboardData ==
    /\ \E n_points \in 1 .. MaxPoints :
          learned' = [n_points |-> n_points, rngBefore |-> rng,
                      datasets |-> learning_dashboard_data(n_points, rng)]
    /\ rng' = Advance(rng, Len(data_types) * learned'.n_points)
    /\ UNCHANGED <<last, inst, diagVars, entryVars, dashVars, objVars, colour>>

\* VisualFoundations(color_scheme).get_color(name)
GetColor ==
    /\ \E color_scheme \in ColorSchemes, name \in RequestedNames :
          colour' = [scheme |-> color_scheme, name |-> name,
                     raised |-> get_color(VisualFoundations(color_scheme).colors, name).raised,
                     value |-> get_color(VisualFoundations(color_scheme).colors, name).value]
    /\ UNCHANGED <<genVars, diagVars, entryVars, dashVars, objVars, learned>>

LibNext ==
    \/ LearningDashboardData
    \/ GetColor

LibSpec == LibInit /\ [][LibNext]_vars

(***************************************************************************)
(* A program that makes instances and changes their colours (SchemeSpec).  *)
(***************************************************************************)
SchemeInit ==
    /\ rng = 0
    /\ last = NoCall
    /\ inst = VisualFoundations("accessible")
    /\ env = NoEnv
    /\ dpc = "idle"
    /\ results = <<>>
    /\ sections = <<>>
    /\ summary = NoSummary
    /\ visualRuns = 0
    /\ visualOutcome = "none"
    /\ exitCode = -1
    /\ importable = {}
    /\ entry = "none"
    /\ epc = "idle"
    /\ app = NoApp
    /\ pending = "none"
    /\ printed = <<>>
    /\ mainRet = "unset"
    /\ exited = -1
    /\ plot = NoPlot
    /\ controls = DefaultControls
    /\ outputs = NoOutputs
    /\ learned = NoLearned
    /\ colour = NoColour
    /\ heap = ModuleObjects
    /\ instances = <<>>
    /\ listed = <<>>
    /\ tracker = <<>>

\* vf = VisualFoundations(color_scheme)
NewInstance ==
    /\ Len(instances) < MaxInstances
    /\ \E color_scheme \in SchemeValues :
          /\ heap' = NewVisualFoundations(heap, color_scheme).heap
          /\ instances' = Append(instances,
                 [scheme |-> color_scheme,
                  colors |-> NewVisualFoundations(heap, color_scheme).colors,
                  palette |-> NewVisualFoundations(heap, color_scheme).palette,
                  made |-> [colors |-> heap'[NewVisualFoundations(heap, color_scheme).colors],
                            palette |-> heap'[NewVisualFoundations(heap, color_scheme).palette]]])
    /\ UNCHANGED <<genVars, diagVars, entryVars, dashVars, libVars, listed, tracker>>

\* d = vf.list_colors()
ListColors ==
    /\ listed = <<>>
    /\ \E i \in DOMAIN instances :
          /\ heap' = list_colors(heap, instances[i]).heap
          /\ listed' = <<list_colors(heap, instances[i]).returned>>
    /\ UNCHANGED <<genVars, diagVars, entryVars, dashVars, libVars, instances, tracker>>

\* vf.colors['primary'] = ...
SetInstanceColor ==
    /\ \E i \in DOMAIN instances :
          heap' = [heap EXCEPT ![instances[i].colors]["primary"] = Marker]
    /\ heap' # heap
    /\ UNCHANGED <<genVars, diagVars, entryVars, dashVars, libVars, instances, listed, tracker>>

\* d['primary'] = ... on a dictionary list_colors returned
SetListedColor ==
    /\ \E k \in DOMAIN listed :
          heap' = [heap EXCEPT ![listed[k]]["primary"] = Marker]
    /\ heap' # heap
    /\ UNCHANGED <<genVars, diagVars, entryVars, dashVars, libVars, instances, listed, tracker>>

\* vf.palette[0] = ...
SetPaletteEntry ==
    /\ \E i \in DOMAIN instances :
          heap' = [heap EXCEPT ![instances[i].palette][1] = Marker]
    /\ heap' # heap
    /\ UNCHANGED <<genVars, diagVars, entryVars, dashVars, libVars, instances, listed, tracker>>

SchemeNext ==
    \/ NewInstance
    \/ ListColors
    \/ SetInstanceColor
    \/ SetListedColor
    \/ SetPaletteEntry

SchemeSpec == SchemeInit /\ [][SchemeNext]_vars

(***************************************************************************)
(* A TestResults tracker on its own (TrackerSpec).                         *)
(***************************************************************************)
MaxAdds == 4

Statuses == {PASS, FAIL, WARN, SKIP}

\* TestResults.success_rate, as the exact fraction num / den
success_rate(rs) ==
    IF total(rs) = 0
    THEN [num |-> 0, den |-> 1]
    ELSE [num |-> passed(rs) * 100, den |-> total(rs)]

\* filled = int(bar_length * rate / 100), with bar_length = 30
filled(rate) == (30 * rate.num) \div (100 * rate.den)

TrackerInit ==
    /\ rng = 0
    /\ last = NoCall
    /\ inst = VisualFoundations("accessible")
    /\ env = NoEnv
    /\ dpc = "idle"
    /\ results = <<>>
    /\ sections = <<>>
    /\ summary = NoSummary
    /\ visualRuns = 0
    /\ visualOutcome = "none"
    /\ exitCode = -1
    /\ importable = {}
    /\ entry = "none"
    /\ epc = "idle"
    /\ app = NoApp
    /\ pending = "none"
    /\ printed = <<>>
    /\ mainRet = "unset"
    /\ exited = -1
    /\ plot = NoPlot
    /\ controls = DefaultControls
    /\ outputs = NoOutputs
    /\ learned = NoLearned
    /\ colour = NoColour
    /\ heap = ModuleObjects
    /\ instances = <<>>
    /\ listed = <<>>
    /\ tracker = <<>>

\* all_results.add(r), for a result of any status
Add ==
    /\ Len(tracker) < MaxAdds
    /\ \E status \in Statuses :
          tracker' = Append(tracker, TestResult("test", status, NoHint))
    /\ UNCHANGED <<genVars, diagVars, entryVars, dashVars, libVars, heap, instances, listed>>

\* all_results = TestResults()
NewTestResults ==
    /\ tracker # <<>>
    /\ tracker' = <<>>
    /\ UNCHANGED <<genVars, diagVars, entryVars, dashVars, libVars, heap, instances, listed>>

TrackerNext ==
    \/ Add
    \/ NewTestResults

TrackerSpec == TrackerInit /\ [][TrackerNext]_vars

(***************************************************************************)
(* test_environment_config on its own, over every combination of the      *)
(* environment variables and interpreters (ConfigSpec).                    *)
(***************************************************************************)
\* sys.version_info as 10 * major + minor
PythonVersions == {27, 36, 37, 38, 39}

ConfigEnvironments ==
    {[NoEnv EXCEPT !.astro_home = a, !.alt_home = alts, !.venv = v, !.python = py] :
        a \in {"dir", "notdir", "unset"},
        alts \in SUBSET {"ASTRO_DEV_HOME", "ASTRONOMY_HOME"},
        v \in BOOLEAN,
        py \in PythonVersions}

ConfigInit ==
    /\ rng = 0
    /\ last = NoCall
    /\ inst = VisualFoundations("accessible")
    /\ env \in ConfigEnvironments
    /\ dpc = "idle"
    /\ results = <<>>
    /\ sections = <<>>
    /\ summary = NoSummary
    /\ visualRuns = 0
    /\ visualOutcome = "none"
    /\ exitCode = -1
    /\ importable = {}
    /\ entry = "none"
    /\ epc = "idle"
    /\ app = NoApp
    /\ pending = "none"
    /\ printed = <<>>
    /\ mainRet = "unset"
    /\ exited = -1
    /\ plot = NoPlot
    /\ controls = DefaultControls
    /\ outputs = NoOutputs
    /\ learned = NoLearned
    /\ colour = NoColour
    /\ heap = ModuleObjects
    /\ instances = <<>>
    /\ listed = <<>>
    /\ tracker = <<>>

\* results = test_environment_config()
TestEnvironmentConfig ==
    /\ dpc = "idle"
    /\ results = <<>>
    /\ results' = test_environment_config(env)
    /\ dpc' = "config"
    /\ UNCHANGED <<genVars, entryVars, dashVars, libVars, objVars, env, sections, summary, visualRuns, visualOutcome, exitCode>>

ConfigNext == TestEnvironmentConfig

ConfigSpec == ConfigInit /\ [][ConfigNext]_vars

(***************************************************************************)
(* Properties of the generators.                                           *)
(***************************************************************************)
Called == last.module # "none"

X == last.result.x

Y == last.result.y

\* C1: for every supported data_type and every n_points >= 1 the generator
\* returns x and y with len(x) = len(y) = n_points.
C1_LengthsAreNPoints ==
    (Called /\ last.data_type \in Supported(last.module))
        => /\ Len(X.nums) = last.n_points
           /\ Len(Y) = last.n_points
           /\ ~last.result.raised

C1_Witness ==
    /\ Called
    /\ last.module = "library"
    /\ last.data_type = "blackbody"
    /\ last.n_points = 1
    /\ Len(Y) = 1

\* C2: for every data_type outside the module's enumeration the generator does
\* not raise and returns the module's default series: the sine series
\* y = sin(x) + noise in the dashboard, the linear series y = 0.5*x + noise with
\* title 'Sample Linear Data' in the library.
C2_UnknownTypeGivesDefault ==
    (Called /\ last.data_type \notin Supported(last.module))
        => /\ ~last.result.raised
           /\ Len(Y) = last.n_points
           /\ \A i \in 1 .. Len(Y) :
                 /\ Y[i].fn = (IF last.module = "dashboard" THEN "sin(x)" ELSE "0.5*x")
                 /\ Y[i].num = X.nums[i]
                 /\ Y[i].den = X.den
                 /\ Y[i].off = 0
                 /\ Y[i].noise
                      = last.noise_level * 500 * random(last.rngBefore, last.n_points)[i]
           /\ (last.module = "library" => last.result.title = "Sample Linear Data")

\* the library half of C2 alone
C2_LibraryUnknownTypeGivesLinear ==
    (Called /\ last.module = "library" /\ last.data_type \notin LibraryTypes)
        => C2_UnknownTypeGivesDefault

\* the sample at index i lies in the transit window |x - 5.0| < 0.75
InWindow(i) == Abs(100 * X.nums[i] - 500 * X.den) < 75 * X.den

\* the sample at index i lies further than d (hundredths) from the centre
Beyond(i, d100) == Abs(100 * X.nums[i] - 500 * X.den) > d100 * X.den

TransitNoNoise == Called /\ last.data_type = "transit" /\ last.noise_level = 0

\* the configured transit depth, in units of 1e-4
Depth == IF last.module = "dashboard" THEN 150 ELSE 200

\* C4: with noise_level = 0, every sample inside the transit window
\* |x - 5.0| < 0.75 equals the baseline 1.0 reduced by exactly the configured
\* depth (0.015 in the dashboard, 0.02 in the library).
C4_WindowReducedByDepth ==
    TransitNoNoise
        => \A i \in 1 .. Len(Y) :
              InWindow(i) => (Y[i].off = 10000 - Depth /\ Y[i].noise = 0)

\* C5 as claimed: with noise_level = 0, every sample outside the transit window
\* (|x - 5.0| >= 0.75) equals the baseline 1.0.
C5_OutsideWindowIsBaseline ==
    TransitNoNoise
        => \A i \in 1 .. Len(Y) :
              ~InWindow(i) => (Y[i].off = 10000 /\ Y[i].noise = 0)

\* C5 as amended: with noise_level = 0, every sample beyond the shoulders, that
\* is with |x - 5.0| > 1.05 in the dashboard and |x - 5.0| > 0.95 in the
\* library, equals the baseline 1.0.
C5_BeyondShouldersIsBaseline ==
    TransitNoNoise
        => \A i \in 1 .. Len(Y) :
              Beyond(i, IF last.module = "dashboard" THEN 105 ELSE 95)
                  => (Y[i].off = 10000 /\ Y[i].noise = 0)

\* a dashboard transit with a sample on a shoulder (x = 4 of 0, 2, .., 10), which
\* is lowered, and samples beyond the shoulders, which are not
C5_Witness ==
    /\ TransitNoNoise
    /\ last.module = "dashboard"
    /\ last.n_points = 6
    /\ ~InWindow(3) /\ ~Beyond(3, 105) /\ Y[3].off < 10000
    /\ Beyond(2, 105) /\ Y[2].off = 10000

\* C6: for every n_points >= 2 and every data_type, x is strictly increasing
\* and uniformly spaced, with x[0] = 0 and x[n_points-1] = 10.
C6_GridSpansZeroToTen ==
    (Called /\ last.n_points >= 2)
        => /\ X.den > 0
           /\ X.nums[1] = 0
           /\ X.nums[Len(X.nums)] = 10 * X.den
           /\ \A i \in 1 .. (Len(X.nums) - 1) :
                 /\ X.nums[i] < X.nums[i + 1]
                 /\ X.nums[i + 1] - X.nums[i] = X.nums[2] - X.nums[1]

C6_Witness ==
    /\ Called
    /\ last.n_points = MaxPoints
    /\ X.nums[MaxPoints] = 10 * X.den
    /\ X.nums[2] > 0

\* the same call made from random-source state s
Replay(s) ==
    Generate(last.module, last.data_type, last.n_points, last.noise_level, s)

\* C7 as claimed: a generator call has no side effects: it leaves the instance
\* attributes and the process-wide random source as they were, and what it
\* returns does not depend on the calls made before it.
C7_NoSideEffects ==
    Called
        => /\ inst = VisualFoundations("accessible")
           /\ rng = last.rngBefore
           /\ \A s \in RngStates : Replay(s).y = Y

\* C7 as amended: a generator call changes no instance attribute; the one
\* state it changes is the process-wide random source, which it advances by
\* the n_points draws of np.random.random (and, in the dashboard's random walk,
\* by the n_points draws of np.random.randn before them), whatever noise_level.
C7_OnlyRandomSourceAdvances ==
    Called
        => /\ inst = VisualFoundations("accessible")
           /\ rng = (last.rngBefore
                      + (IF last.module = "dashboard"
                            /\ last.data_type \notin {"sine", "exponential", "spectrum",
                                                      "lightcurve", "transit"}
                         THEN 2 * last.n_points ELSE last.n_points)) % RngPeriod

\* a call with noise_level = 0 that moved the random source
C7_Witness ==
    /\ Called
    /\ last.noise_level = 0
    /\ last.data_type = "sine"
    /\ rng # last.rngBefore
    /\ inst = VisualFoundations("accessible")

\* C8 as claimed: for every supported data_type (the dashboard's 'random'
\* included) and n_points, two calls with noise_level = 0 return identical
\* (x, y) whatever the state of the random source.
C8_DeterministicWithoutNoise ==
    (Called /\ last.noise_level = 0 /\ last.data_type \in Supported(last.module))
        => \A s \in RngStates : Replay(s).x = X /\ Replay(s).y = Y

\* C8 as amended: the same for every supported data_type except the
\* dashboard's 'random', whose series is a sum of normal draws.
C8_DeterministicExceptRandomWalk ==
    (/\ Called
     /\ last.noise_level = 0
     /\ last.data_type \in Supported(last.module)
     /\ ~(last.module = "dashboard" /\ last.data_type = "random"))
        => \A s \in RngStates : Replay(s).x = X /\ Replay(s).y = Y

C8_Witness ==
    /\ Called
    /\ last.noise_level = 0
    /\ last.module = "dashboard"
    /\ last.data_type = "lightcurve"
    /\ last.n_points > 1
    /\ \E s \in RngStates : s # last.rngBefore /\ Replay(s).y = Y


\* a library call of the blackbody branch without noise has returned
BlackbodyNoNoise ==
    /\ Called
    /\ last.module = "library"
    /\ last.result.branch = "blackbody"
    /\ last.noise_level = 0

\* C12 as stated: without noise every blackbody value is a finite number in
\* [0, 1], the sample at x = 0 included, and the largest value is 1.
C12_BlackbodyMaxNormalized ==
    BlackbodyNoNoise =>
        /\ \A i \in DOMAIN Y : Y[i].fn \in {"0", "1", "x^-5/(exp(1/(x+0.1))-1)/max"}
        /\ \E i \in DOMAIN Y : Y[i].fn = "1"

\* what the code returns instead: nan at x = 0 and 0 everywhere else
C12_NanThenZeros ==
    BlackbodyNoNoise =>
        /\ Y[1].fn = "nan"
        /\ \A i \in DOMAIN Y : i > 1 => Y[i].fn = "0"

C12_Witness ==
    /\ BlackbodyNoNoise
    /\ last.n_points = 5
    /\ Y[1].fn = "nan"

\* a spectrum call without noise has returned
SpectrumNoNoise ==
    /\ Called
    /\ last.result.branch = "spectrum"
    /\ last.noise_level = 0

LinesOf(module) == IF module = "dashboard" THEN DashboardLines ELSE LibraryLines

\* sample i lies on the centre of line k
OnCentre(i, k) == 100 * X.nums[i] = LinesOf(last.module)[k].center * X.den

\* C13: without noise, a spectrum sample on a line centre (2.5, 5.0 or 7.5)
\* is the local continuum 1 + 0.1*sin(5x) lowered by the depth of that line
\* (0.25, 0.15, 0.20) to within 1e-4, in the dashboard and in the library.
C13_CentresLoweredByDepth ==
    SpectrumNoNoise =>
        \A i \in DOMAIN Y : \A k \in 1 .. 3 :
            OnCentre(i, k) =>
                /\ Y[i].fn = "1+0.1*sin(5x)"
                /\ Y[i].noise = 0
                /\ Abs(Y[i].off + 100 * LinesOf(last.module)[k].depth) <= 1

\* a five-point library spectrum: its samples 2, 3 and 4 are the three centres
C13_Witness ==
    /\ SpectrumNoNoise
    /\ last.module = "library"
    /\ last.n_points = 5
    /\ OnCentre(2, 1) /\ OnCentre(3, 2) /\ OnCentre(4, 3)
    /\ Y[2].off = 0 - 2500
    /\ Y[3].off = 0 - 1500
    /\ Y[4].off = 0 - 2000

\* generate('sine', n_points=5, noise_level=0) has returned
SineExample ==
    /\ Called
    /\ last.data_type = "sine"
    /\ last.n_points = 5
    /\ last.noise_level = 0

\* C14: 'sine' with n_points = 5 and noise_level = 0 returns
\* x = [0, 2.5, 5.0, 7.5, 10.0] (quarters 0, 10, 20, 30, 40) and
\* y[i] = sin(x[i]) with no noise term, in the dashboard and in the library.
C14_SineExample ==
    SineExample =>
        /\ X = [den |-> 4, nums |-> <<0, 10, 20, 30, 40>>]
        /\ Len(Y) = 5
        /\ \A i \in 1 .. 5 : Y[i] = Sample("sin(x)", X.nums[i], X.den, 0, 0)

\* the dashboard's generator has returned the example
C14_Witness ==
    /\ SineExample
    /\ last.module = "dashboard"
    /\ rng # last.rngBefore
    /\ Y[2] = Sample("sin(x)", 10, 4, 0, 0)

\* the types whose formula the two generators share
SharedTypes == {"sine", "exponential"}

\* C20: for 'sine' and 'exponential', every n_points >= 1, every noise_level
\* and the same random draws, the dashboard's _generate_data and the
\* library's create_sample_data return the same (x, y).
C20_SharedTypesAgree ==
    (Called /\ last.data_type \in SharedTypes) =>
        LET d == _generate_data(last.data_type, last.n_points, last.noise_level,
                                last.rngBefore)
            l == create_sample_data(last.data_type, last.n_points, last.noise_level,
                                    last.rngBefore)
        IN /\ d.x = l.x
           /\ d.y = l.y
           /\ d.draws = l.draws
           /\ X = l.x
           /\ Y = d.y

\* a noisy exponential came from the library; the dashboard gives the same
C20_Witness ==
    /\ Called
    /\ last.module = "library"
    /\ last.data_type = "exponential"
    /\ last.n_points = 3
    /\ last.noise_level = 1
    /\ \E i \in DOMAIN Y : Y[i].noise # 0
    /\ Y = _generate_data("exponential", 3, 1, last.rngBefore).y

(***************************************************************************)
(* Properties of the diagnostic script (DiagSpec).                         *)
(***************************************************************************)
Done == dpc = "done"

HasFail == \E i \in DOMAIN results : results[i].status = FAIL

\* C3 as stated: the diagnostic script returns 1 exactly when a REQUIRED
\* package is missing, and 0 otherwise.
C3_ExitOneIffRequiredMissing ==
    Done => /\ exitCode \in {0, 1}
            /\ exitCode = 1 <=> (Required \cap env.missing # {})

\* C3 amended: the script returns 0 or 1; it returns 1 exactly when some
\* recorded result is a FAIL, which every missing required package causes
\* (and which other failures, such as an old Python, cause as well).
C3_ExitOneIffSomeFail ==
    Done => /\ exitCode \in {0, 1}
            /\ exitCode = 1 <=> HasFail
            /\ (Required \cap env.missing # {}) => exitCode = 1

\* the script returned 1 with every required package installed
C3_Witness ==
    /\ Done
    /\ exitCode = 1
    /\ Required \cap env.missing = {}
    /\ env.python < 38

\* the name under which the result of an optional package is recorded
OptionalName(p) ==
    CASE p = "bokeh" -> "Bokeh"
      [] p = "jupyterlab" -> "JupyterLab"
      [] p = "ipywidgets" -> "IPyWidgets"
      [] p = "pytest" -> "Pytest"
      [] p = "h5py" -> "h5py"
      [] p = "sklearn" -> "Scikit-learn"
      [] p = "visual_foundations" -> "Visual Foundations Import"

\* the section (1..8) that checks an optional package
SectionOf(p) ==
    CASE p = "bokeh" -> 3
      [] p \in {"jupyterlab", "ipywidgets"} -> 4
      [] p \in {"pytest", "h5py", "sklearn"} -> 5
      [] p = "visual_foundations" -> 7

\* every result the run records in environment e, in order
AllResults(e) ==
    test_core_scientific_stack(e) \o test_astronomy_libraries(e)
        \o test_visualization_tools(e) \o test_jupyter_components(e)
        \o test_development_tools(e) \o test_environment_config(e)
        \o test_visual_foundations(e) \o test_numpy_operations(e)
        \o test_matplotlib_plotting(e) \o test_astropy_units(e)

\* the value the run returns in environment e
ExitOf(e) == IF failed(AllResults(e)) = 0 THEN 0 ELSE 1

\* environment e with the optional package p installed and working
Installed(e, p) ==
    [e EXCEPT !.missing = @ \ {p},
              !.broken = IF p = "visual_foundations" THEN @ \ {"vf_data", "vf_colors"} ELSE @]

\* C9: a missing OPTIONAL package is recorded as a warning with an
\* installation hint and never as a failure, every section still runs, and
\* the exit code is the one the run has with that package installed and working.
C9_OptionalMissingOnlyWarns ==
    \A p \in Optional \cap env.missing :
        /\ Len(sections) >= SectionOf(p) =>
              \E i \in DOMAIN results :
                 /\ results[i].name = OptionalName(p)
                 /\ results[i].status = WARN
                 /\ results[i].hint # NoHint
        /\ \A i \in DOMAIN results :
              results[i].name = OptionalName(p) => results[i].status # FAIL
        /\ Done => /\ sections = SectionTitles
                   /\ exitCode = ExitOf(Installed(env, p))

\* a finished run without Bokeh and without the library that returned 0
C9_Witness ==
    /\ Done
    /\ {"bokeh", "visual_foundations"} \subseteq env.missing
    /\ sections = SectionTitles
    /\ exitCode = 0

\* the result lines printed so far: every section passes the results it has
\* added to print_results
PrintedResults == results

\* C15 as stated: a run with --quiet (verbose = False) prints no section
\* header and no result line, only the summary.
C15_QuietPrintsOnlySummary ==
    (dpc # "idle" /\ ~env.verbose) => (sections = <<>> /\ PrintedResults = <<>>)

\* C16: run_visual_test is never called when visual is False; when visual is
\* True it is called at most once, only if no FAIL was recorded and only
\* after all eight sections and the summary; however it ends, the exit code
\* is the one the recorded results give.
C16_VisualTestLastAndHarmless ==
    /\ ~env.visual => (visualRuns = 0 /\ visualOutcome = "none")
    /\ visualRuns <= 1
    /\ visualRuns = 1 =>
          /\ ~HasFail
          /\ sections = SectionTitles
          /\ results = AllResults(env)
          /\ summary.total = Len(results)
          /\ dpc \in {"return", "done"}
          /\ visualOutcome \in {"true", "false", "raised"}
    /\ Done => exitCode = ExitOf(env)

\* a run whose visual test ended in an exception has returned 0
C16_Witness ==
    /\ Done
    /\ env.visual
    /\ visualRuns = 1
    /\ visualOutcome = "raised"
    /\ exitCode = 0

\* the module test_import imports for each display name it is called with
ImportNameOf(package_name) ==
    CASE package_name = "NumPy" -> "numpy"
      [] package_name = "SciPy" -> "scipy"
      [] package_name = "Matplotlib" -> "matplotlib"
      [] package_name = "Pandas" -> "pandas"
      [] package_name = "Astropy" -> "astropy"
      [] package_name = "Plotly" -> "plotly"
      [] package_name = "Seaborn" -> "seaborn"

TestedByImport ==
    {"NumPy", "SciPy", "Matplotlib", "Pandas", "Astropy", "Plotly", "Seaborn"}

\* C23 as stated: test_import reports FAIL only for a package that cannot be
\* imported, whether or not 'packaging' is installed.
C23_FailOnlyWhenNotImportable ==
    \A i \in DOMAIN results :
        (results[i].name \in TestedByImport /\ results[i].status = FAIL) =>
            ImportNameOf(results[i].name) \in env.missing

\* what holds instead: a FAIL means the package or 'packaging' is missing
C23_FailWhenPackageOrHelperMissing ==
    \A i \in DOMAIN results :
        (results[i].name \in TestedByImport /\ results[i].status = FAIL) =>
            \/ ImportNameOf(results[i].name) \in env.missing
            \/ /\ "packaging" \in env.missing
               /\ ImportNameOf(results[i].name) \notin env.noversion

\* the results of the first k sections in environment e, in order
ResultsOfFirst(k, e) ==
    (IF k >= 1 THEN test_core_scientific_stack(e) ELSE <<>>)
        \o (IF k >= 2 THEN test_astronomy_libraries(e) ELSE <<>>)
        \o (IF k >= 3 THEN test_visualization_tools(e) ELSE <<>>)
        \o (IF k >= 4 THEN test_jupyter_components(e) ELSE <<>>)
        \o (IF k >= 5 THEN test_development_tools(e) ELSE <<>>)
        \o (IF k >= 6 THEN test_environment_config(e) ELSE <<>>)
        \o (IF k >= 7 THEN test_visual_foundations(e) ELSE <<>>)
        \o (IF k >= 8 THEN test_numpy_operations(e) \o test_matplotlib_plotting(e)
                               \o test_astropy_units(e)
                      ELSE <<>>)

\* C24: the eight sections run in the fixed order whatever the earlier
\* results were, the tracker holds exactly the results of the sections run
\* so far, each once and in order, and the summary is computed from all of
\* them.
C24_AllSectionsInOrder ==
    /\ Len(sections) <= 8
    /\ sections = SubSeq(<<"Core Scientific Stack", "Astronomy Libraries",
                           "Visualization Tools", "Jupyter Components",
                           "Development Tools", "Environment Configuration",
                           "Visual Foundations Library", "Functional Tests">>,
                         1, Len(sections))
    /\ results = ResultsOfFirst(Len(sections), env)
    /\ dpc \in {"summary", "visual", "return", "done"} => Len(sections) = 8
    /\ dpc \in {"visual", "return", "done"} =>
           /\ summary.total = Len(ResultsOfFirst(8, env))
           /\ summary.failed =
                  Cardinality({i \in DOMAIN results : results[i].status = FAIL})

\* a finished run whose first section already recorded a FAIL
C24_Witness ==
    /\ Done
    /\ results[1].status = FAIL
    /\ Len(sections) = 8
    /\ results[Len(results)].name = AllResults(env)[Len(AllResults(env))].name
    /\ summary.failed >= 1

(***************************************************************************)
(* Properties of the entry points (EntrySpec).                             *)
(***************************************************************************)
InstallMessage == HandlerMessage("ImportError")

\* C10: an entry point whose third-party package is unavailable raises an
\* ImportError before it does anything else: the dashboard is never
\* created, laid out or served and main() prints the install message and
\* returns 1; a renderer creates no figure, writes no file and shows nothing.
C10_UnavailableRaisesImportErrorFirst ==
    /\ (entry = "dashboard" /\ ~DASH_AVAILABLE(importable)) =>
          /\ app = NoApp
          /\ epc \in {"main", "handler", "done", "exited"}
          /\ epc = "handler" => pending = "ImportError"
          /\ epc \in {"done", "exited"} => mainRet = "1" /\ printed = <<InstallMessage>>
          /\ epc = "exited" => exited = 1
    /\ (plot.fn = "foundation_plot" /\ ~MATPLOTLIB_AVAILABLE(importable)) =>
          plot.raised = "ImportError" /\ plot.events = <<>>
    /\ (plot.fn \in {"interactive_plot", "comparison_plot"}
            /\ ~PLOTLY_AVAILABLE(importable)) =>
          plot.raised = "ImportError" /\ plot.events = <<>> /\ plot.traces = <<>>

\* the script has exited with status 1 on a machine with dash but without plotly
C10_Witness ==
    /\ entry = "dashboard"
    /\ importable = {"dash", "matplotlib"}
    /\ epc = "exited"
    /\ mainRet = "1"
    /\ exited = 1
    /\ printed = <<InstallMessage>>
    /\ app = NoApp

(***************************************************************************)
(* Properties of the dashboard page (DashSpec).                            *)
(***************************************************************************)
Rendered == outputs # NoOutputs

\* C11: after any change of a control the callback has made exactly one
\* generator call, with the current values of the three controls, and each of
\* the four outputs (main plot, histogram, statistics panel, education
\* panel) shows what was computed from that one call.
C11_AllOutputsFromOneCall ==
    Rendered =>
        /\ Len(outputs.generated) = 1
        /\ LET g == outputs.generated[1]
               info == DATA_TYPE_INFO(controls.data_type)
           IN /\ g.data_type = controls.data_type
              /\ g.n_points = controls.n_points
              /\ g.noise_level = controls.noise_level
              /\ g.result = _generate_data(controls.data_type, controls.n_points,
                                           controls.noise_level, g.rngBefore)
              /\ rng = Advance(g.rngBefore, g.result.draws)
              /\ outputs.main_fig = <<[x |-> g.result.x, y |-> g.result.y,
                                       title |-> info.title, xaxis |-> info.xlabel,
                                       yaxis |-> info.ylabel]>>
              /\ outputs.hist_fig = <<[x |-> g.result.y, xaxis |-> info.ylabel]>>
              /\ outputs.stats_panel = <<[stats |-> Statistics(g.result.y),
                                          n_points |-> controls.n_points,
                                          noise_level |-> controls.noise_level]>>
              /\ outputs.education_panel = <<[title |-> info.title]>>

\* all three controls have been moved away from their initial values
C11_Witness ==
    /\ Rendered
    /\ controls.data_type = "transit"
    /\ controls.n_points = 20
    /\ controls.noise_level = 0
    /\ outputs.education_panel = <<[title |-> "Exoplanet Transit"]>>

\* comparison_plot has returned a figure
Compared ==
    /\ plot.fn = "comparison_plot"
    /\ PLOTLY_AVAILABLE(importable)

\* C17: comparison_plot adds min(len(datasets), len(labels), 4) traces;
\* trace i shows dataset i under label i in cell i of the order (1,1), (1,2),
\* (2,1), (2,2); no cell holds two traces; datasets beyond the fourth are
\* ignored without an error.
C17_AtMostFourInGridOrder ==
    Compared =>
        /\ plot.raised = "none"
        /\ Len(plot.traces) = Min(Min(plot.datasets, plot.labels), 4)
        /\ \A i \in DOMAIN plot.traces :
              /\ plot.traces[i].dataset = i
              /\ plot.traces[i].label = i
              /\ plot.traces[i].row = ((i - 1) \div 2) + 1
              /\ plot.traces[i].col = ((i - 1) % 2) + 1
        /\ \A i, j \in DOMAIN plot.traces :
              (plot.traces[i].row = plot.traces[j].row
                  /\ plot.traces[i].col = plot.traces[j].col) => i = j

\* five datasets were passed and four were drawn
C17_Witness ==
    /\ Compared
    /\ plot.datasets = 5
    /\ plot.labels = 5
    /\ plot.raised = "none"
    /\ Len(plot.traces) = 4
    /\ plot.traces[4].row = 2 /\ plot.traces[4].col = 2

\* C22 as stated: for every data_type the callback is called with, the
\* title and labels shown are those of the formula _generate_data used for the
\* plotted series.
C22_LabelsMatchFormula ==
    Rendered =>
        LET used == outputs.generated[1].result.branch
        IN /\ outputs.education_panel = <<[title |-> DATA_TYPE_INFO(used).title]>>
           /\ outputs.main_fig[1].title = DATA_TYPE_INFO(used).title
           /\ outputs.main_fig[1].xaxis = DATA_TYPE_INFO(used).xlabel
           /\ outputs.main_fig[1].yaxis = DATA_TYPE_INFO(used).ylabel

\* what holds instead: the two agree for the six values of the dropdown
C22_LabelsMatchForDropdownValues ==
    (Rendered /\ controls.data_type \in DashboardTypes) =>
        /\ outputs.generated[1].result.branch = controls.data_type
        /\ outputs.main_fig[1].title = DATA_TYPE_INFO(outputs.generated[1].result.branch).title

(***************************************************************************)
(* Properties of the library's utilities (LibSpec).                        *)
(***************************************************************************)
Learned == learned.n_points > 0

\* C18: learning_dashboard_data(n_points) returns a dictionary with exactly
\* the keys sine_wave, exponential, spectrum, lightcurve, transit and
\* blackbody ('sine' is not a key), each holding a pair (x, y) with
\* len(x) = len(y) = n_points.
C18_SixKeysOfNPoints ==
    Learned =>
        /\ DOMAIN learned.datasets =
              {"sine_wave", "exponential", "spectrum", "lightcurve", "transit", "blackbody"}
        /\ \A key \in DOMAIN learned.datasets :
              /\ Len(learned.datasets[key]) = 2
              /\ Len(learned.datasets[key][1].nums) = learned.n_points
              /\ Len(learned.datasets[key][2]) = learned.n_points

\* a collection of three-point datasets has been returned
C18_Witness ==
    /\ Learned
    /\ learned.n_points = 3
    /\ "sine_wave" \in DOMAIN learned.datasets
    /\ Len(learned.datasets["sine_wave"][2]) = 3
    /\ learned.datasets["sine_wave"][2][1].fn = "sin(x)"

Coloured == colour.scheme # "none"

\* the colours the source gives each key, per scheme
SchemeColour(scheme, key) ==
    IF scheme = "wong"
    THEN CASE key = "primary" -> <<"#", "0072B2">>
           [] key = "secondary" -> <<"#", "D55E00">>
           [] key = "success" -> <<"#", "009E73">>
           [] key = "warning" -> <<"#", "E69F00">>
           [] key = "info" -> <<"#", "CC79A7">>
           [] key = "light" -> <<"#", "ECF0F1">>
           [] key = "dark" -> <<"#", "34495E">>
           [] key = "cyan" -> <<"#", "56B4E9">>
    ELSE CASE key = "primary" -> <<"#", "3498DB">>
           [] key = "secondary" -> <<"#", "E74C3C">>
           [] key = "success" -> <<"#", "2ECC71">>
           [] key = "warning" -> <<"#", "F39C12">>
           [] key = "info" -> <<"#", "9B59B6">>
           [] key = "light" -> <<"#", "ECF0F1">>
           [] key = "dark" -> <<"#", "34495E">>
           [] key = "cyan" -> <<"#", "1ABC9C">>

\* C19: get_color(name) never raises and returns a hex code starting with
\* '#': the colour of the key for one of the eight keys, the scheme's
\* 'primary' colour for any other name, in both colour schemes.
C19_GetColorAlwaysHex ==
    Coloured =>
        /\ colour.raised = "none"
        /\ Len(colour.value) = 2
        /\ colour.value[1] = "#"
        /\ colour.value =
              SchemeColour(colour.scheme,
                           IF colour.name \in {"primary", "secondary", "success", "warning",
                                               "info", "light", "dark", "cyan"}
                           THEN colour.name ELSE "primary")

\* an unknown name was asked of the 'wong' scheme and its blue came back
C19_Witness ==
    /\ Coloured
    /\ colour.scheme = "wong"
    /\ colour.name = "magenta"
    /\ colour.raised = "none"
    /\ colour.value = <<"#", "0072B2">>

(***************************************************************************)
(* Properties of the colour schemes (SchemeSpec).                          *)
(***************************************************************************)
EightKeys == {"primary", "secondary", "success", "warning", "info", "light", "dark", "cyan"}

\* the dictionaries a program can reach besides the colors of instance i
OtherDictionaries(i) ==
    {AccessibleColorsId} \cup {instances[j].colors : j \in DOMAIN instances \ {i}}
        \cup {listed[k] : k \in DOMAIN listed}

\* C21: the 'wong' scheme has a palette of 8 colours and any other value
\* gives the accessible scheme; colors has the same eight keys in both; the
\* colors of an instance and a dictionary returned by list_colors are objects
\* of their own, so changing one changes neither ACCESSIBLE_COLORS nor the
\* colors of another instance.
C21_SchemesAndIsolation ==
    /\ heap[AccessibleColorsId] = ACCESSIBLE_COLORS
    /\ \A i \in DOMAIN instances :
          /\ DOMAIN instances[i].made.colors = EightKeys
          /\ DOMAIN heap[instances[i].colors] = EightKeys
          /\ instances[i].scheme = "wong" => Len(instances[i].made.palette) = 8
          /\ instances[i].scheme # "wong" =>
                /\ instances[i].made.colors = ACCESSIBLE_COLORS
                /\ instances[i].made.palette = values(ACCESSIBLE_COLORS)
          /\ instances[i].colors \notin OtherDictionaries(i)
    /\ \A k \in DOMAIN listed :
          listed[k] \notin {AccessibleColorsId} \cup {instances[j].colors : j \in DOMAIN instances}

\* two accessible instances: the first one's primary colour and the listed
\* copy were overwritten, the second instance and the module are as they were
C21_Witness ==
    /\ Len(instances) = 2
    /\ instances[1].scheme = "dark"
    /\ instances[2].scheme = "accessible"
    /\ heap[instances[1].colors]["primary"] = Marker
    /\ heap[instances[2].colors] = ACCESSIBLE_COLORS
    /\ listed # <<>>
    /\ heap[listed[1]]["primary"] = Marker
    /\ heap[AccessibleColorsId] = ACCESSIBLE_COLORS

(***************************************************************************)
(* Saving and showing a plot (EntrySpec).                                  *)
(***************************************************************************)
SaveEvents == {"fig.savefig", "fig.write_html"}

ShowEvents == {"plt.show", "fig.show"}

Saves == {i \in DOMAIN plot.events : plot.events[i] \in SaveEvents}

Shows == {i \in DOMAIN plot.events : plot.events[i] \in ShowEvents}

\* C25: with matplotlib available, foundation_plot with a style other than
\* 'line', 'scatter' or 'bar' raises ValueError and neither saves nor shows;
\* otherwise it saves exactly when save_path is given and shows exactly when
\* show is True; in all three renderers a call that raises neither saves nor
\* shows, and a save always comes before the show.
C25_SaveBeforeShow ==
    /\ (plot.fn = "foundation_plot" /\ MATPLOTLIB_AVAILABLE(importable)) =>
           IF plot.style \in {"line", "scatter", "bar"}
           THEN /\ plot.raised = "none"
                /\ Cardinality(Saves) = (IF plot.save THEN 1 ELSE 0)
                /\ Cardinality(Shows) = (IF plot.show THEN 1 ELSE 0)
           ELSE plot.raised = "ValueError"
    /\ plot.raised # "none" => (Saves = {} /\ Shows = {})
    /\ (plot.fn # "none" /\ plot.raised = "none") =>
           /\ (Saves # {}) = plot.save
           /\ (Shows # {}) = plot.show
    /\ \A i \in Saves, j \in Shows : i < j

\* foundation_plot asked to save and show a plot of an unknown style
C25_Witness ==
    /\ plot.fn = "foundation_plot"
    /\ MATPLOTLIB_AVAILABLE(importable)
    /\ plot.style = "pie"
    /\ plot.save
    /\ plot.show
    /\ plot.raised = "ValueError"
    /\ Saves = {}
    /\ Shows = {}

\* a call that both saved and showed
C25_SavedAndShown ==
    /\ plot.fn = "foundation_plot"
    /\ Saves # {}
    /\ Shows # {}

(***************************************************************************)
(* Properties of the result tracker (TrackerSpec).                         *)
(***************************************************************************)
Skipped == \E i \in DOMAIN tracker : tracker[i].status = SKIP

\* C26: after any sequence of add calls passed + failed + warnings <= total,
\* with equality exactly when no SKIP was added; total is the number of adds;
\* success_rate is 0 for an empty tracker and 100 * passed / total otherwise,
\* within [0, 100], and the filled part of the bar is within 0 .. 30.
C26_CountsAndRate ==
    /\ passed(tracker) + failed(tracker) + warnings(tracker) <= total(tracker)
    /\ (passed(tracker) + failed(tracker) + warnings(tracker) = total(tracker))
           = ~Skipped
    /\ total(tracker) = Len(tracker)
    /\ total(tracker) = 0 => success_rate(tracker).num = 0
    /\ total(tracker) > 0 =>
           success_rate(tracker).num * total(tracker)
               = 100 * passed(tracker) * success_rate(tracker).den
    /\ success_rate(tracker).den > 0
    /\ 0 <= success_rate(tracker).num
    /\ success_rate(tracker).num <= 100 * success_rate(tracker).den
    /\ filled(success_rate(tracker)) \in 0 .. 30

\* a tracker holding a skipped, a passed and a failed result
C26_Witness ==
    /\ Skipped
    /\ passed(tracker) = 1
    /\ failed(tracker) = 1
    /\ total(tracker) = 3
    /\ filled(success_rate(tracker)) = 10

(***************************************************************************)
(* Symmetry of the transit (TransitSpec).                                  *)
(***************************************************************************)
\* the values a transit sample takes without noise, in units of 1e-4
TransitLevels == {10000, 10000 - (Depth \div 2), 10000 - Depth, 10000 - (3 * Depth) \div 2}

Mirrored(i) == Y[i].off = Y[Len(Y) + 1 - i].off

\* C27 as stated: with noise_level = 0 the transit series of either preset is
\* mirror-symmetric, y[i] == y[n_points-1-i] for every n_points >= 1 and every
\* i, and every value is 1, 1 - 0.5*depth, 1 - depth or 1 - 1.5*depth.
C27_TransitMirrorSymmetric ==
    TransitNoNoise
        => \A i \in 1 .. Len(Y) : Mirrored(i) /\ Y[i].off \in TransitLevels

\* the sample at index i has the exact value of an end of a shoulder interval
OnShoulderEnd(i) ==
    \E t100 \in (IF last.module = "dashboard" THEN {395, 435, 565, 605}
                                               ELSE {405, 445, 555, 595}) :
        100 * X.nums[i] = t100 * X.den

\* what holds: the values are among the four levels, and the series is
\* mirror-symmetric whenever no sample falls on an end of a shoulder interval
C27_SymmetricOffShoulderEnds ==
    TransitNoNoise
        => /\ \A i \in 1 .. Len(Y) : Y[i].off \in TransitLevels
           /\ (\A i \in 1 .. Len(Y) : ~OnShoulderEnd(i))
                  => \A i \in 1 .. Len(Y) : Mirrored(i)

(***************************************************************************)
(* The statistics panel (DashSpec).                                        *)
(***************************************************************************)
\* a <= b for fractions with positive denominators
AtMost(a, b) == a.num * b.den <= b.num * a.den

Stats == outputs.stats_panel[1].stats

\* C28: the statistics panel, the histogram and the main plot of a callback
\* are computed from the same y series; the statistics shown satisfy
\* min <= median <= max, min <= mean <= max, std >= 0 and
\* range = max - min >= 0; the panel shows the n_points and noise_level of
\* that call.
C28_StatisticsOfTheSameSeries ==
    Rendered =>
        /\ Len(outputs.generated) = 1
        /\ outputs.main_fig[1].y = outputs.generated[1].result.y
        /\ outputs.hist_fig[1].x = outputs.main_fig[1].y
        /\ Stats = Statistics(outputs.main_fig[1].y)
        /\ AtMost(Stats.Min, Stats.Median) /\ AtMost(Stats.Median, Stats.Max)
        /\ AtMost(Stats.Min, Stats.Mean) /\ AtMost(Stats.Mean, Stats.Max)
        /\ Stats.StdDev.num >= 0
        /\ Stats.Range.num = Stats.Max.num - Stats.Min.num
        /\ Stats.Range.num >= 0
        /\ outputs.stats_panel[1].n_points = outputs.generated[1].n_points
        /\ outputs.stats_panel[1].noise_level = outputs.generated[1].noise_level
        /\ outputs.stats_panel[1].n_points = controls.n_points
        /\ outputs.stats_panel[1].noise_level = controls.noise_level

\* a noisy exponential decay of 20 points, whose statistics differ from one
\* another
C28_Witness ==
    /\ Rendered
    /\ controls.data_type = "exponential"
    /\ controls.n_points = 20
    /\ controls.noise_level = 1
    /\ Stats.Min.num * Stats.Median.den < Stats.Median.num
    /\ Stats.Median.num * Stats.Mean.den < Stats.Mean.num * Stats.Median.den
    /\ Stats.Mean.num < Stats.Max.num * Stats.Mean.den
    /\ Stats.StdDev.num > 0
    /\ Stats.Range.num > 0

(***************************************************************************)
(* How the dashboard's main() ends (EntrySpec).                            *)
(***************************************************************************)
Handled == epc \in {"done", "exited"} /\ pending # "none"

\* C29: main() returns 1 after an ImportError, 0 after a KeyboardInterrupt
\* and 1 after any other exception, so each raised exception ends in a
\* returned value and an exit status; the server runs only once the layout
\* and the callbacks are set up.
C29_ExceptionsBecomeExitValues ==
    /\ Handled =>
           /\ pending = "ImportError" => mainRet = "1"
           /\ pending = "KeyboardInterrupt" => mainRet = "0"
           /\ pending \notin {"ImportError", "KeyboardInterrupt"} => mainRet = "1"
    /\ (epc = "exited" /\ pending # "none") =>
           exited = (IF pending = "KeyboardInterrupt" THEN 0 ELSE 1)
    /\ epc = "handler" => (pending # "none" /\ mainRet = "unset")
    /\ (app.serving \/ epc \in {"run", "serving"}) =>
           (app.created /\ app.layout /\ app.callbacks)
    /\ ~app.created => ~app.serving

\* a server that was set up, ran and was stopped with Ctrl+C
C29_Witness ==
    /\ epc = "exited"
    /\ pending = "KeyboardInterrupt"
    /\ mainRet = "0"
    /\ exited = 0
    /\ app.layout
    /\ app.callbacks

(***************************************************************************)
(* The environment configuration check (ConfigSpec).                       *)
(***************************************************************************)
Configured == dpc = "config"

\* C30: test_environment_config returns exactly three results, for
\* ASTRO_HOME, Virtual Environment and Python Version in that order, for every
\* combination of environment variables and interpreter; the one ASTRO_HOME
\* result is PASS for a directory, WARN for a non-directory, PASS naming the
\* first alternative that is set when ASTRO_HOME is unset, and WARN when none
\* is set; only Python Version can be FAIL.
C30_ThreeResultsOneAstroHome ==
    Configured =>
        /\ Len(results) = 3
        /\ results[1].name = "ASTRO_HOME"
        /\ results[2].name = "Virtual Environment"
        /\ results[3].name = "Python Version"
        /\ env.astro_home = "dir" => results[1].status = PASS
        /\ env.astro_home = "notdir" => results[1].status = WARN
        /\ (env.astro_home = "unset" /\ "ASTRO_DEV_HOME" \in env.alt_home) =>
               (results[1].status = PASS /\ results[1].message = <<"ASTRO_DEV_HOME", "set">>)
        /\ (env.astro_home = "unset" /\ env.alt_home = {"ASTRONOMY_HOME"}) =>
               (results[1].status = PASS /\ results[1].message = <<"ASTRONOMY_HOME", "set">>)
        /\ (env.astro_home = "unset" /\ env.alt_home = {}) => results[1].status = WARN
        /\ results[1].status # FAIL
        /\ results[2].status # FAIL
        /\ (results[3].status = FAIL) = (env.python < 38)

\* ASTRO_HOME unset, both alternative names set, on an interpreter too old
C30_Witness ==
    /\ Configured
    /\ env.astro_home = "unset"
    /\ env.alt_home = {"ASTRO_DEV_HOME", "ASTRONOMY_HOME"}
    /\ env.python = 37
    /\ Len(results) = 3
    /\ results[1].message = <<"ASTRO_DEV_HOME", "set">>
    /\ results[3].status = FAIL

====
